---------------------------- MODULE Spec2Model ----------------------------
(***************************************************************************)
(* A model of the chitin agent core:                                       *)
(*   - AuditBatcher        (src/chitin_agent/enterprise/audit.py)          *)
(*   - MCPServer session   (src/chitin_agent/mcp/client.py, transport.py)  *)
(*   - ToolExecutor        (src/chitin_agent/executor.py)                  *)
(* Each subsystem has its own variables and its own specification; the     *)
(* other subsystems' variables stay at their initial values.               *)
(***************************************************************************)
EXTENDS Integers, Sequences, FiniteSets, TLC

(***************************************************************************)
(* Bounds of the model.                                                    *)
(***************************************************************************)
MaxEvents == 4
MaxFlushes == 2
MaxBatch == 3
MaxTime == 2
NumAuditTasks == 2
BatchInterval == 2
NumTools == 2
NumArgs == 1
NumResults == 2
MaxProposals == 2
NumServers == 2
NumRoutedTools == 1
NumCallers == 2
MaxAnswerLen == 3

VARIABLES
  \* ---- AuditBatcher (audit.py) ----
  queue,        \* self.queue: deque of events, head first
  last_push,    \* self.last_push
  batch_size,   \* self.batch_size
  now,          \* the wall clock read by datetime.now()
  auditLock,    \* holder of self._lock (0 = free)
  curCall,      \* the call that holds the lock (op = "none" when free)
  inflight,     \* the local `events` of a _push_batch awaiting the sink
  delivered,    \* what the sink has accepted: a sequence of batches
  added,        \* every event ever passed to add_event, in order
  auditLog,     \* completed add_event / flush calls, in lock order
  pushSnap,     \* queue and last_push just before the last push attempt
  \* ---- MCPServer (mcp/client.py) and its Transport (mcp/transport.py) ----
  connected,           \* self.connected
  tools,               \* the keys of self.tools
  reconnect_attempts,  \* self.reconnect_attempts
  tOpen,        \* the transport holds a process / network session
  spc,          \* where the running operation of the session is suspended
  sop,          \* the running operation: connect, call_tool or disconnect
  sreq,         \* the send_request calls of the running operation
  sstat,        \* what the running operation did to the transport
  sres,         \* the last completed operation and its outcome
  \* ---- ToolExecutor (executor.py) ----
  hasAudit,     \* self.audit_batcher is configured
  epc,          \* where process_llm_response is
  resp,         \* the model response being processed
  tpc,          \* where each _execute_tool_call task is suspended
  dec,          \* the decision propose returned to each task
  verdict,      \* what the escalation handler answered each task
  tlog,         \* each task's calls to its collaborators, in order
  taskResult,   \* what each task returned or raised
  reordered,    \* some task ended while one of a lower index was running
  final_results,  \* the list process_llm_response returns
  event_ids,    \* the ids in session.event_ids (as a set of labels)
  \* ---- MCPClient (mcp/client.py) ----
  servers,      \* the keys of self.servers, in insertion order
  srv,          \* connected and tools of each MCPServer object
  cpc,          \* where the running operation of the client is suspended
  cop,          \* the running operation and its loop position
  cres,         \* the last completed operation and its outcome
  \* ---- EscalationHandler (escalation/auto_deny.py, terminal.py) ----
  esc,          \* one handle() call: its handler, position, input and result
  \* ---- MCPServer under concurrent call_tool (mcp/client.py) ----
  conc,         \* the callers' positions and the requests on the wire
  \* ---- run_session (main.py): the finally block ----
  fin           \* what is configured, the position, the cleanup steps run

auditVars == <<queue, last_push, batch_size, now, auditLock, curCall, inflight,
               delivered, added, auditLog, pushSnap>>

sessVars == <<connected, tools, reconnect_attempts, tOpen, spc, sop, sreq,
              sstat, sres>>

execVars == <<hasAudit, epc, resp, tpc, dec, verdict, tlog, taskResult,
              reordered, final_results, event_ids>>

clientVars == <<servers, srv, cpc, cop, cres>>

escVars == <<esc>>

concVars == <<conc>>

finVars == <<fin>>

vars == <<auditVars, sessVars, execVars, clientVars, escVars, concVars,
          finVars>>

(***************************************************************************)
(* Helpers.                                                                *)
(***************************************************************************)
Min(a, b) == IF a <= b THEN a ELSE b

RECURSIVE Flatten(_)
Flatten(ss) == IF ss = <<>> THEN <<>> ELSE Head(ss) \o Flatten(Tail(ss))

RECURSIVE Reversed(_)
Reversed(s) == IF s = <<>> THEN <<>> ELSE Append(Reversed(Tail(s)), Head(s))

\* deque.appendleft
AppendLeft(q, e) == <<e>> \o q

(***************************************************************************)
(* AuditBatcher                                                            *)
(***************************************************************************)
AuditTasks == 1..NumAuditTasks

\* the pushes a flush is followed through: one more than it needs when every
\* push takes an event off the queue
MaxPushes(call) == call.qlen0 + 1

NoCall == [op |-> "none", ev |-> 0, qlen0 |-> 0, due |-> FALSE,
           attempts |-> 0, pushed |-> <<>>]

NoSnap == [q |-> <<>>, lp |-> 0]

\* add_event, lines 73-79: the dual count / time trigger
ShouldPush_CountOnly(q, b, t, lp) == Len(q) >= b
ShouldPush_Strict(q, b, t, lp) == Len(q) > b \/ t - lp >= BatchInterval
ShouldPush(q, b, t, lp) == Len(q) >= b \/ t - lp >= BatchInterval

\* _push_batch, line 90: popleft min(len(queue), batch_size) times
BatchOf_OneShort(q, b) == SubSeq(q, 1, Min(Len(q), b) - 1)
BatchOf(q, b) == SubSeq(q, 1, Min(Len(q), b))

AfterBatch(q, b) == SubSeq(q, Len(BatchOf(q, b)) + 1, Len(q))

\* _push_batch, lines 100-101: for event in reversed(events): appendleft
RECURSIVE AppendLeftAll(_, _)
AppendLeftAll(q, es) ==
  IF es = <<>> THEN q ELSE AppendLeftAll(AppendLeft(q, Head(es)), Tail(es))

Requeue_Forward(q, events) == AppendLeftAll(q, events)
Requeue(q, events) == AppendLeftAll(q, Reversed(events))

\* `async with self._lock` (lines 69 and 106): the block is entered only
\* while no task holds the lock
Acquirable_Always(lock) == TRUE
Acquirable(lock) == lock = 0

AuditInit ==
  /\ queue = <<>>
  /\ last_push = 0
  /\ now = 0
  /\ batch_size \in 1..MaxBatch
  /\ auditLock = 0
  /\ curCall = NoCall
  /\ inflight = <<>>
  /\ delivered = <<>>
  /\ added = <<>>
  /\ auditLog = <<>>
  /\ pushSnap = NoSnap

\* the batcher with any batch_size the constructor accepts: lines 46-65 do
\* not validate it, and 0 stands for every value below 1
\* (min(len(queue), batch_size) is then never positive)
AuditAnyInit ==
  /\ queue = <<>>
  /\ last_push = 0
  /\ now = 0
  /\ batch_size \in 0..MaxBatch
  /\ auditLock = 0
  /\ curCall = NoCall
  /\ inflight = <<>>
  /\ delivered = <<>>
  /\ added = <<>>
  /\ auditLog = <<>>
  /\ pushSnap = NoSnap

\* the batcher as constructed, with batch_size 1
AuditRest ==
  /\ queue = <<>>
  /\ last_push = 0
  /\ now = 0
  /\ batch_size = 1
  /\ auditLock = 0
  /\ curCall = NoCall
  /\ inflight = <<>>
  /\ delivered = <<>>
  /\ added = <<>>
  /\ auditLog = <<>>
  /\ pushSnap = NoSnap

Finished(call, result, q) ==
  [op |-> call.op, ev |-> call.ev, qlen0 |-> call.qlen0, due |-> call.due,
   attempts |-> call.attempts, pushed |-> call.pushed,
   result |-> result, qlen1 |-> Len(q)]

\* _push_batch up to its await: take the batch off the queue head
StartPush(t, call, q, lp) ==
  /\ inflight' = BatchOf(q, batch_size)
  /\ queue' = AfterBatch(q, batch_size)
  /\ pushSnap' = [q |-> q, lp |-> lp]
  /\ auditLock' = t
  /\ curCall' = [call EXCEPT !.attempts = @ + 1]
  /\ UNCHANGED auditLog

\* the call returns (or raises) and leaves the `async with self._lock` block
EndCall(call, result, q) ==
  /\ queue' = q
  /\ inflight' = <<>>
  /\ auditLock' = 0
  /\ curCall' = NoCall
  /\ auditLog' = Append(auditLog, Finished(call, result, q))

\* AuditBatcher.add_event up to its first await
AddEvent(t) ==
  /\ UNCHANGED <<sessVars, execVars, clientVars, escVars, concVars, finVars>>
  /\ Acquirable(auditLock)
  /\ Len(added) < MaxEvents
  /\ LET e == Len(added) + 1
         q1 == Append(queue, e)
         call == [op |-> "add", ev |-> e, qlen0 |-> Len(queue),
                  due |-> (now - last_push >= BatchInterval),
                  attempts |-> 0, pushed |-> <<>>]
     IN /\ added' = Append(added, e)
        /\ IF ShouldPush(q1, batch_size, now, last_push)
             THEN StartPush(t, call, q1, last_push)
             ELSE EndCall(call, "returned", q1) /\ UNCHANGED pushSnap
  /\ UNCHANGED <<last_push, batch_size, now, delivered>>

\* AuditBatcher.flush up to its first await
Flush(t) ==
  /\ UNCHANGED <<sessVars, execVars, clientVars, escVars, concVars, finVars>>
  /\ Acquirable(auditLock)
  /\ Len(SelectSeq(auditLog, LAMBDA c : c.op = "flush")) < MaxFlushes
  /\ LET call == [op |-> "flush", ev |-> 0, qlen0 |-> Len(queue),
                  due |-> (now - last_push >= BatchInterval),
                  attempts |-> 0, pushed |-> <<>>]
     IN IF queue # <<>>
          THEN StartPush(t, call, queue, last_push)
          ELSE EndCall(call, "returned", queue) /\ UNCHANGED pushSnap
  /\ UNCHANGED <<last_push, batch_size, now, delivered, added>>

\* client.push_audit_events returned: lines 95-96, then back in the caller
PushOk ==
  /\ UNCHANGED <<sessVars, execVars, clientVars, escVars, concVars, finVars>>
  /\ auditLock # 0
  /\ delivered' = Append(delivered, inflight)
  /\ last_push' = now
  /\ LET call == [curCall EXCEPT !.pushed = Append(@, inflight)]
     IN IF call.op = "flush" /\ queue # <<>>
          THEN /\ call.attempts < MaxPushes(call)
               /\ StartPush(auditLock, call, queue, now)
          ELSE EndCall(call, "returned", queue) /\ UNCHANGED pushSnap
  /\ UNCHANGED <<batch_size, now, added>>

\* (a variant that logs the failure and returns normally)
PushFail_Swallowed ==
  /\ UNCHANGED <<sessVars, execVars, clientVars, escVars, concVars, finVars>>
  /\ auditLock # 0
  /\ EndCall(curCall, "returned", Requeue(queue, inflight))
  /\ UNCHANGED <<last_push, batch_size, now, delivered, added, pushSnap>>

\* client.push_audit_events raised: lines 97-102, the exception leaves the call
PushFail ==
  /\ UNCHANGED <<sessVars, execVars, clientVars, escVars, concVars, finVars>>
  /\ auditLock # 0
  /\ EndCall(curCall, "raised", Requeue(queue, inflight))
  /\ UNCHANGED <<last_push, batch_size, now, delivered, added, pushSnap>>

\* time passes
Tick ==
  /\ UNCHANGED <<sessVars, execVars, clientVars, escVars, concVars, finVars>>
  /\ now < MaxTime
  /\ now' = now + 1
  /\ UNCHANGED <<queue, last_push, batch_size, auditLock, curCall, inflight,
                 delivered, added, auditLog, pushSnap>>

(***************************************************************************)
(* AuditBatcher: the claims.                                               *)
(***************************************************************************)
Last(s) == s[Len(s)]

Range(s) == {s[i] : i \in 1..Len(s)}

AuditQuiescent == auditLock = 0

\* C4: after any sequence of add_event and flush calls, with the sink
\* succeeding or failing arbitrarily, the batches the sink accepted (in push
\* order) followed by the queue are exactly the events ever added, in
\* insertion order; while a push awaits the sink its batch sits in between.
C4_NoEventLost ==
  /\ Flatten(delivered) \o inflight \o queue = added
  /\ AuditQuiescent => Flatten(delivered) \o queue = added

\* a push failed, a later push succeeded, events are still queued
C4_Witness ==
  /\ AuditQuiescent
  /\ \E k \in 1..Len(auditLog) : auditLog[k].result = "raised"
                                 /\ auditLog[k].qlen1 >= 2
  /\ delivered # <<>>
  /\ queue # <<>>
  /\ Len(added) >= 3

\* calls s .. s+B-1 of the log: B consecutive add_event calls that start on
\* an empty queue, find the interval not elapsed and meet no sink failure
C5_Run(s) ==
  /\ s + batch_size - 1 <= Len(auditLog)
  /\ auditLog[s].qlen0 = 0
  /\ \A k \in s..(s + batch_size - 1) :
       /\ auditLog[k].op = "add"
       /\ ~auditLog[k].due
       /\ auditLog[k].result = "returned"

\* C5: from an empty queue, with a succeeding sink and the interval not
\* elapsed, batch_size consecutive add_event calls push exactly once: in the
\* last of them, all their events in insertion order, leaving the queue empty.
C5_OnePushPerBatch ==
  \A s \in 1..Len(auditLog) :
    C5_Run(s) =>
      LET e == s + batch_size - 1
      IN /\ \A k \in s..(e - 1) : auditLog[k].attempts = 0
         /\ auditLog[e].attempts = 1
         /\ auditLog[e].pushed = << [i \in 1..batch_size |-> auditLog[s + i - 1].ev] >>
         /\ auditLog[e].qlen1 = 0

\* such a run with a batch of at least two, after earlier traffic
C5_Witness ==
  /\ batch_size >= 2
  /\ \E s \in 2..Len(auditLog) : C5_Run(s)

C24_FlushTerminates ==
  /\ (auditLock # 0 /\ curCall.op = "flush") =>
       /\ inflight # <<>>
       /\ curCall.attempts <= curCall.qlen0
  /\ \A k \in 1..Len(auditLog) :
       auditLog[k].op = "flush" =>
         /\ auditLog[k].attempts <= auditLog[k].qlen0
         /\ auditLog[k].result = "returned" =>
              /\ auditLog[k].qlen1 = 0
              /\ Len(auditLog[k].pushed) = auditLog[k].attempts
         /\ auditLog[k].result = "raised" =>
              Len(auditLog[k].pushed) = auditLog[k].attempts - 1

\* C31: append, drain and requeue never interleave, whatever tasks call
\* add_event and flush while a push awaits the sink: a push in flight holds
\* exactly the batch taken off the queue as it was when the push started,
\* nothing has been appended to or taken from the queue since, no second
\* push is in flight, and the events the sink accepted are a prefix of the
\* events in the order they were appended, none lost and none twice.
C31_MutationsNeverInterleave ==
  /\ LET d == Flatten(delivered)
     IN /\ Len(d) <= Len(added)
        /\ d = SubSeq(added, 1, Len(d))
  /\ auditLock # 0 =>
       /\ curCall.op # "none"
       /\ inflight = BatchOf(pushSnap.q, batch_size)
       /\ queue = AfterBatch(pushSnap.q, batch_size)
       /\ Flatten(delivered) \o pushSnap.q = added
  /\ auditLock = 0 =>
       /\ curCall = NoCall
       /\ inflight = <<>>
       /\ Flatten(delivered) \o queue = added

\* the second task's flush is in its second push, after a failed push, with
\* events still queued behind the batch in flight
C31_Witness ==
  /\ auditLock = NumAuditTasks
  /\ curCall.op = "flush"
  /\ curCall.attempts = 2
  /\ queue # <<>>
  /\ \E k \in 1..Len(auditLog) : auditLog[k].result = "raised"

\* what C32 says of one add_event call, running or ended
C32_Call(c) ==
  /\ c.attempts \in {0, 1}
  /\ c.attempts = 1 <=> (c.qlen0 + 1 >= batch_size \/ c.due)

\* C32: add_event appends its event and then makes exactly one push attempt
\* before it returns or raises if and only if the queue, the new event
\* included, holds batch_size events or more, or the interval has elapsed
\* since last_push; otherwise it returns without contacting the sink and
\* the queue is one event longer.
C32_PushIffCountOrInterval ==
  /\ (auditLock # 0 /\ curCall.op = "add") =>
       (C32_Call(curCall) /\ curCall.attempts = 1)
  /\ \A k \in 1..Len(auditLog) :
       auditLog[k].op = "add" =>
         /\ C32_Call(auditLog[k])
         /\ auditLog[k].attempts = 0 =>
              /\ auditLog[k].result = "returned"
              /\ auditLog[k].pushed = <<>>
              /\ auditLog[k].qlen1 = auditLog[k].qlen0 + 1
  /\ (AuditQuiescent /\ auditLog # <<>> /\ Last(auditLog).op = "add"
        /\ Last(auditLog).attempts = 0) =>
       /\ Last(queue) = Last(auditLog).ev
       /\ Len(queue) = Last(auditLog).qlen0 + 1

\* an add_event pushed because the interval had elapsed, the queue still
\* short of a batch; an earlier one had only queued its event
C32_Witness ==
  /\ AuditQuiescent
  /\ auditLog # <<>>
  /\ Last(auditLog).op = "add"
  /\ Last(auditLog).due
  /\ Last(auditLog).qlen0 + 1 < batch_size
  /\ Last(auditLog).attempts = 1
  /\ Last(auditLog).result = "returned"
  /\ auditLog[1].op = "add"
  /\ auditLog[1].attempts = 0

\* the add_event calls of the log that returned without raising
ReturnedAdds ==
  {k \in 1..Len(auditLog) :
     auditLog[k].op = "add" /\ auditLog[k].result = "returned"}

\* C36 (as stated): after any add_event that returns without raising the
\* queue holds fewer than batch_size events.
C36_QueueBelowBatchAfterAdd ==
  \A k \in ReturnedAdds : auditLog[k].qlen1 < batch_size

\* C36, amended: an add_event that returns without raising leaves fewer than
\* batch_size events queued if fewer than batch_size were queued when it
\* started; when failed pushes have left batch_size events or more, its
\* single push takes one batch and leaves the rest, the length before plus
\* one minus batch_size, which may be batch_size or more.
C36_QueueBelowBatchUnlessBacklog ==
  \A k \in ReturnedAdds :
    /\ auditLog[k].qlen0 < batch_size => auditLog[k].qlen1 < batch_size
    /\ auditLog[k].qlen0 >= batch_size =>
         /\ auditLog[k].attempts = 1
         /\ auditLog[k].qlen1 = auditLog[k].qlen0 + 1 - batch_size

\* an add_event found a backlog left by failed pushes, pushed one batch and
\* returned with batch_size events or more still queued
C36_Witness ==
  \E k \in ReturnedAdds :
    /\ auditLog[k].qlen0 >= batch_size
    /\ auditLog[k].qlen1 >= batch_size
    /\ \E j \in 1..(k - 1) : auditLog[j].result = "raised"

AuditNext ==
  \/ \E t \in AuditTasks : AddEvent(t)
  \/ \E t \in AuditTasks : Flush(t)
  \/ PushOk
  \/ PushFail
  \/ Tick

(***************************************************************************)
(* MCPServer: one tool-server session over one Transport.                  *)
(* Every await of connect / call_tool / _reconnect / disconnect is a step; *)
(* the tool server and the channel decide how each request ends.           *)
(***************************************************************************)
ToolNames == 1..NumTools
ArgVals == 1..NumArgs
ResultVals == 1..NumResults

\* MCPServer.__init__, line 33
max_reconnect_attempts == 3

\* How a send_request ends.
\*   ok            a result
\*   closed        ConnectionError, or RuntimeError("No response from MCP server")
\*   protocol      RuntimeError("MCP error: ...") / RuntimeError("HTTP error ...")
\*   other         any other exception (a JSON decoding error, ...)
\*   notconnected  RuntimeError("Not connected"): the transport is not open
SendOutcomes(open) ==
  IF open THEN {"ok", "closed", "protocol", "other"} ELSE {"notconnected"}

\* call_tool, line 81: except (ConnectionError, RuntimeError)
CaughtByCallTool(kind) == kind \in {"closed", "protocol", "notconnected"}

\* _reconnect, line 94
Exhausted_OffByOne(a) == a > max_reconnect_attempts
Exhausted_Never(a) == FALSE
Exhausted(a) == a >= max_reconnect_attempts

\* connect, lines 41-51: the requests connect() sends, in order
ConnectRequests_ListFirst == <<"tools/list", "initialize">>
ConnectRequests == <<"initialize", "tools/list">>

\* connect, line 63
AttemptsAfterConnect_Kept(a) == a
AttemptsAfterConnect(a) == 0

\* connect, lines 54-60: self.tools[tool.name] = tool for every listed tool
ToolsAfterList(old, catalog) == old \cup catalog

NoOp == [op |-> "none", name |-> 0, args |-> 0, attempts0 |-> 0,
         connected0 |-> FALSE]

\* exact: the tool map a reconnection left is the catalog its tools/list
\* returned
NoStat == [reconnects |-> 0, discs |-> 0, opens |-> 0, reconn |-> "none",
           exact |-> TRUE]

NoRes == [op |-> "none", name |-> 0, args |-> 0, attempts0 |-> 0,
          connected0 |-> FALSE, result |-> "none", err |-> "none", val |-> 0,
          reqs |-> <<>>, stat |-> NoStat]

Request(method, name, args) ==
  [method |-> method, name |-> name, args |-> args, wire |-> tOpen,
   resp |-> "pending", val |-> 0]

\* call_tool, lines 76-79 and 87-90: the request handed to
\* transport.send_request, {"name": name, "arguments": arguments}
CallRequest_NoArguments(name, args) == Request("tools/call", name, 0)
CallRequest(name, args) == Request("tools/call", name, args)

\* the last request of the log, answered
Answered(reqs, kind, val) ==
  [reqs EXCEPT ![Len(reqs)] = [@ EXCEPT !.resp = kind, !.val = val]]

SessionInit ==
  /\ connected = FALSE
  /\ tools = {}
  /\ reconnect_attempts = 0
  /\ tOpen = FALSE
  /\ spc = "idle"
  /\ sop = NoOp
  /\ sreq = <<>>
  /\ sstat = NoStat
  /\ sres = NoRes

\* the running operation returns or raises to its caller
EndOp(result, err, val, reqs, stat) ==
  /\ spc' = "idle"
  /\ sres' = [op |-> sop.op, name |-> sop.name, args |-> sop.args,
              attempts0 |-> sop.attempts0, connected0 |-> sop.connected0,
              result |-> result, err |-> err, val |-> val,
              reqs |-> reqs, stat |-> stat]
  /\ sop' = NoOp
  /\ sreq' = <<>>
  /\ sstat' = NoStat

BeginOp(op, name, args) ==
  sop' = [op |-> op, name |-> name, args |-> args,
          attempts0 |-> reconnect_attempts, connected0 |-> connected]

\* connect, lines 65-68: any exception leaves connected = False and is
\* re-raised; inside _reconnect it leaves call_tool as well
ConnectFails(err, reqs, stat) ==
  /\ connected' = FALSE
  /\ EndOp("raised", err, 0, reqs,
           IF sop.op = "call" THEN [stat EXCEPT !.reconn = "failed"] ELSE stat)

\* the owner calls connect(): up to `await self.transport.connect()`
SConnect ==
  /\ UNCHANGED <<auditVars, execVars, clientVars, escVars, concVars, finVars>>
  /\ spc = "idle"
  /\ BeginOp("connect", 0, 0)
  /\ spc' = "c_open"
  /\ sreq' = <<>>
  /\ sstat' = NoStat
  /\ UNCHANGED <<connected, tools, reconnect_attempts, tOpen, sres>>

\* transport.connect() ends; on success connect sends `initialize`
STransportConnect(ok) ==
  /\ UNCHANGED <<auditVars, execVars, clientVars, escVars, concVars, finVars>>
  /\ spc = "c_open"
  /\ LET stat == [sstat EXCEPT !.opens = @ + 1]
     IN IF ok
          THEN /\ tOpen' = TRUE
               /\ sreq' = Append(sreq, [Request(ConnectRequests[1], 0, 0)
                                          EXCEPT !.wire = TRUE])
               /\ sstat' = stat
               /\ spc' = "c_init"
               /\ UNCHANGED <<connected, sop, sres>>
          ELSE /\ ConnectFails("connect_failed", sreq, stat)
               /\ UNCHANGED tOpen
  /\ UNCHANGED <<tools, reconnect_attempts>>

\* the `initialize` request ends; on success connect sends `tools/list`
SInitResponse(kind) ==
  /\ UNCHANGED <<auditVars, execVars, clientVars, escVars, concVars, finVars>>
  /\ spc = "c_init"
  /\ kind \in SendOutcomes(tOpen)
  /\ LET reqs == Answered(sreq, kind, 0)
     IN IF kind = "ok"
          THEN /\ sreq' = Append(reqs, Request(ConnectRequests[2], 0, 0))
               /\ spc' = "c_list"
               /\ UNCHANGED <<connected, sop, sstat, sres>>
          ELSE ConnectFails(kind, reqs, sstat)
  /\ UNCHANGED <<tools, reconnect_attempts, tOpen>>

\* the `tools/list` request ends; on success connect() returns, and inside
\* call_tool's recovery the tools/call is sent again (lines 87-90)
SListResponse(kind, catalog) ==
  /\ UNCHANGED <<auditVars, execVars, clientVars, escVars, concVars, finVars>>
  /\ spc = "c_list"
  /\ kind \in SendOutcomes(tOpen)
  /\ kind = "ok" \/ catalog = {}
  /\ LET reqs == Answered(sreq, kind, 0)
     IN IF kind = "ok"
          THEN /\ tools' = ToolsAfterList(tools, catalog)
               /\ connected' = TRUE
               /\ reconnect_attempts' = AttemptsAfterConnect(reconnect_attempts)
               /\ IF sop.op = "call"
                    THEN /\ sreq' = Append(reqs, CallRequest(sop.name, sop.args))
                         /\ sstat' = [sstat EXCEPT !.reconn = "ok",
                                 !.exact = ToolsAfterList(tools, catalog)
                                             = catalog]
                         /\ spc' = "retry"
                         /\ UNCHANGED <<sop, sres>>
                    ELSE EndOp("ok", "none", 0, reqs, sstat)
          ELSE /\ ConnectFails(kind, reqs, sstat)
               /\ UNCHANGED <<tools, reconnect_attempts>>
  /\ UNCHANGED tOpen

\* call_tool(name, arguments): lines 72-79, up to the await of send_request
SCallTool(name, args) ==
  /\ UNCHANGED <<auditVars, execVars, clientVars, escVars, concVars, finVars>>
  /\ spc = "idle"
  /\ IF name \notin tools
       THEN /\ spc' = "idle"
            /\ sres' = [NoRes EXCEPT !.op = "call", !.name = name,
                          !.args = args, !.attempts0 = reconnect_attempts,
                          !.connected0 = connected, !.result = "raised",
                          !.err = "tool_not_found"]
            /\ sreq' = <<>>
            /\ UNCHANGED sop
       ELSE /\ spc' = "call"
            /\ sreq' = <<CallRequest(name, args)>>
            /\ BeginOp("call", name, args)
            /\ UNCHANGED sres
  /\ sstat' = NoStat
  /\ UNCHANGED <<connected, tools, reconnect_attempts, tOpen>>

\* the first tools/call ends: lines 80-85, and _reconnect up to the await of
\* transport.disconnect() (lines 94-103)
SCallResponse(kind, val) ==
  /\ UNCHANGED <<auditVars, execVars, clientVars, escVars, concVars, finVars>>
  /\ spc = "call"
  /\ kind \in SendOutcomes(tOpen)
  /\ LET reqs == Answered(sreq, kind, IF kind = "ok" THEN val ELSE 0)
     IN IF kind = "ok"
          THEN /\ EndOp("ok", "none", val, reqs, sstat)
               /\ UNCHANGED <<connected, reconnect_attempts>>
          ELSE IF CaughtByCallTool(kind)
            THEN /\ connected' = FALSE
                 /\ IF Exhausted(reconnect_attempts)
                      THEN /\ EndOp("raised", "exhausted", 0, reqs,
                                    [sstat EXCEPT !.reconnects = @ + 1,
                                                  !.reconn = "exhausted"])
                           /\ UNCHANGED reconnect_attempts
                      ELSE /\ reconnect_attempts' = reconnect_attempts + 1
                           /\ sreq' = reqs
                           /\ sstat' = [sstat EXCEPT !.reconnects = @ + 1,
                                                     !.discs = @ + 1]
                           /\ spc' = "r_disc"
                           /\ UNCHANGED <<sop, sres>>
            ELSE /\ EndOp("raised", kind, 0, reqs, sstat)
                 /\ UNCHANGED <<connected, reconnect_attempts>>
  /\ UNCHANGED <<tools, tOpen>>

\* transport.disconnect() inside _reconnect ends (disconnect, lines 112-116;
\* _reconnect ignores its errors), then the back-off sleep starts
SReconnectDisconnect(ok) ==
  /\ UNCHANGED <<auditVars, execVars, clientVars, escVars, concVars, finVars>>
  /\ spc = "r_disc"
  /\ ok \/ tOpen
  /\ IF ok
       THEN tOpen' = FALSE /\ connected' = FALSE
       ELSE UNCHANGED <<tOpen, connected>>
  /\ spc' = "r_sleep"
  /\ UNCHANGED <<tools, reconnect_attempts, sop, sreq, sstat, sres>>

\* asyncio.sleep(1) is over: _reconnect calls connect()
SBackoffOver ==
  /\ UNCHANGED <<auditVars, execVars, clientVars, escVars, concVars, finVars>>
  /\ spc = "r_sleep"
  /\ spc' = "c_open"
  /\ UNCHANGED <<connected, tools, reconnect_attempts, tOpen, sop, sreq, sstat,
                 sres>>

\* the tools/call sent again after the reconnection ends (lines 87-90)
SRetryResponse(kind, val) ==
  /\ UNCHANGED <<auditVars, execVars, clientVars, escVars, concVars, finVars>>
  /\ spc = "retry"
  /\ kind \in SendOutcomes(tOpen)
  /\ LET reqs == Answered(sreq, kind, IF kind = "ok" THEN val ELSE 0)
     IN IF kind = "ok"
          THEN EndOp("ok", "none", val, reqs, sstat)
          ELSE EndOp("raised", kind, 0, reqs, sstat)
  /\ UNCHANGED <<connected, tools, reconnect_attempts, tOpen>>

\* the owner calls disconnect(): up to `await self.transport.disconnect()`
SDisconnect ==
  /\ UNCHANGED <<auditVars, execVars, clientVars, escVars, concVars, finVars>>
  /\ spc = "idle"
  /\ BeginOp("disconnect", 0, 0)
  /\ spc' = "d_disc"
  /\ sreq' = <<>>
  /\ sstat' = [NoStat EXCEPT !.discs = 1]
  /\ UNCHANGED <<connected, tools, reconnect_attempts, tOpen, sres>>

\* transport.disconnect() ends: lines 113-116
SDisconnectDone(ok) ==
  /\ UNCHANGED <<auditVars, execVars, clientVars, escVars, concVars, finVars>>
  /\ spc = "d_disc"
  /\ ok \/ tOpen
  /\ IF ok
       THEN tOpen' = FALSE /\ connected' = FALSE
       ELSE UNCHANGED <<tOpen, connected>>
  /\ EndOp("ok", "none", 0, sreq, sstat)
  /\ UNCHANGED <<tools, reconnect_attempts>>

(***************************************************************************)
(* MCPServer: the claims.                                                  *)
(***************************************************************************)
CallRequests(reqs) == SelectSeq(reqs, LAMBDA r : r.method = "tools/call")

\* a call_tool has just ended whose first tools/call ended as `kinds` say
CallEndedAfter(kinds) ==
  /\ spc = "idle"
  /\ sres.op = "call"
  /\ sres.reqs # <<>>
  /\ sres.reqs[1].resp \in kinds

ConnectionLost == {"closed", "notconnected"}

\* what C7 says of the call once the tools/call has been sent again
C7_RetryOutcome(calls) ==
  /\ Len(calls) = 2
  /\ calls[2].name = sres.name
  /\ calls[2].args = sres.args
  /\ calls[2].resp = "ok" =>
       /\ sres.result = "ok"
       /\ sres.val = calls[2].val
       /\ connected
       /\ reconnect_attempts = 0
  /\ calls[2].resp # "ok" =>
       /\ sres.result = "raised"
       /\ sres.err = calls[2].resp

\* C7 as stated: after a connection error on tools/call the session always
\* reconnects once and sends the same tools/call again exactly once.
C7_AlwaysResends ==
  CallEndedAfter(ConnectionLost) =>
    /\ sres.stat.reconnects = 1
    /\ C7_RetryOutcome(CallRequests(sres.reqs))

\* C7, amended: after a connection error on tools/call the session makes one
\* reconnection attempt; if it succeeds the same tools/call is sent again
\* exactly once, its result is returned with the session connected and
\* reconnect_attempts = 0, or its failure is raised with no further retry;
\* if the reconnection fails, that failure is raised and nothing is resent.
C7_ReconnectThenRetryOnce ==
  CallEndedAfter(ConnectionLost) =>
    LET calls == CallRequests(sres.reqs)
    IN /\ sres.stat.reconnects = 1
       /\ sres.stat.discs <= 1
       /\ sres.stat.opens <= 1
       /\ sres.stat.reconn = "ok" => C7_RetryOutcome(calls)
       /\ sres.stat.reconn # "ok" =>
            /\ Len(calls) = 1
            /\ sres.result = "raised"
            /\ sres.err \in {"exhausted", "connect_failed", "closed",
                             "protocol", "other"}

\* a call that lost the connection after an earlier failed reconnection,
\* reconnected and got the answer of the second tools/call
C7_Witness ==
  /\ CallEndedAfter({"closed"})
  /\ sres.attempts0 >= 1
  /\ sres.stat.reconn = "ok"
  /\ sres.result = "ok"
  /\ sres.val = NumResults

\* C8: a tools/call answered with an application-level error is not sent
\* again and starts no reconnection: one request, the transport neither
\* disconnected nor reopened, reconnect_attempts unchanged, the error raised.
C8_ProtocolErrorNotRetried ==
  CallEndedAfter({"protocol"}) =>
    /\ Len(CallRequests(sres.reqs)) = 1
    /\ sres.stat.reconnects = 0
    /\ sres.stat.discs = 0
    /\ sres.stat.opens = 0
    /\ reconnect_attempts = sres.attempts0
    /\ sres.result = "raised"
    /\ sres.err = "protocol"

\* connect() called by the owner has just ended, and reconnect_attempts was
\* at the maximum when it was called
ConnectEndedAtMax ==
  /\ spc = "idle"
  /\ sres.op = "connect"
  /\ sres.attempts0 >= max_reconnect_attempts

\* C9 as stated: connect() called with reconnect_attempts at the maximum
\* raises ReconnectExhausted and the session stays disconnected.
C9_ConnectRefusedAtMax ==
  ConnectEndedAtMax =>
    /\ sres.result = "raised"
    /\ sres.err = "exhausted"
    /\ ~connected

\* C9, amended: it is the reconnection of call_tool that is refused once
\* reconnect_attempts has reached the maximum: it raises ReconnectExhausted
\* without touching the transport or the counter and the session stays
\* disconnected. connect() called by the owner is not refused: it opens the
\* transport, and connects with reconnect_attempts = 0 or raises the
\* connection's own error, disconnected.
C9_ReconnectRefusedAtMax ==
  /\ (CallEndedAfter({"closed", "notconnected", "protocol"})
        /\ sres.attempts0 >= max_reconnect_attempts) =>
       /\ sres.result = "raised"
       /\ sres.err = "exhausted"
       /\ ~connected
       /\ reconnect_attempts = sres.attempts0
       /\ sres.stat.discs = 0
       /\ sres.stat.opens = 0
       /\ Len(sres.reqs) = 1
  /\ ConnectEndedAtMax =>
       /\ sres.stat.opens = 1
       /\ sres.result = "ok" => connected /\ reconnect_attempts = 0
       /\ sres.result = "raised" =>
            /\ ~connected
            /\ sres.err # "exhausted"
            /\ reconnect_attempts = sres.attempts0

\* a call_tool that found the attempts exhausted
C9_Witness ==
  /\ CallEndedAfter({"closed"})
  /\ sres.attempts0 = max_reconnect_attempts
  /\ sres.err = "exhausted"
  /\ tOpen

\* C10: the tool map is non-empty only while the session is connected.
C10_ToolsOnlyWhenConnected == tools # {} => connected

\* a connect() of the owner, or the connect() of a reconnection, has just
\* succeeded
ConnectJustSucceeded ==
  \/ spc = "idle" /\ sres.op = "connect" /\ sres.result = "ok"
  \/ spc = "retry"

\* C11: reconnect_attempts stays within 0..max_reconnect_attempts and is 0
\* right after every successful connect(): the first one, the one of a
\* reconnection, and one made by the owner when the attempts were exhausted.
C11_AttemptsBoundedAndReset ==
  /\ reconnect_attempts \in 0..max_reconnect_attempts
  /\ ConnectJustSucceeded => (reconnect_attempts = 0 /\ connected)
  /\ (spc = "idle" /\ sres.op = "call" /\ sres.stat.reconn = "ok") =>
       reconnect_attempts = 0

\* the owner's connect() succeeded although the attempts had been exhausted
C11_Witness ==
  /\ ConnectEndedAtMax
  /\ sres.result = "ok"

\* C12: call_tool on a session that is not connected, or for a name that is
\* not in the tool map, raises ToolNotFound and sends nothing.
C12_CallRequiresConnected ==
  (spc = "idle" /\ sres.op = "call"
     /\ (~sres.connected0 \/ sres.name \notin tools)) =>
    /\ sres.result = "raised"
    /\ sres.err = "tool_not_found"
    /\ sres.reqs = <<>>

\* C13: after a successful reconnection the tool map is exactly the catalog
\* the tools/list of that reconnection returned.
C13_ToolsAreReconnectCatalog ==
  (spc = "idle" /\ sres.op = "call" /\ sres.stat.reconn = "ok") =>
    sres.stat.exact

\* every tools/call request of the log carries the name and the arguments
CarriesCall(reqs, name, args) ==
  \A k \in 1..Len(reqs) :
    reqs[k].method = "tools/call" =>
      (reqs[k].name = name /\ reqs[k].args = args)

\* C27: the name and the argument map given to call_tool are the params of
\* every tools/call request handed to the transport: of the first one, sent
\* as soon as the tool is found, and of the one sent again after a
\* reconnection.
C27_ArgumentsReachTransport ==
  /\ spc = "call" =>
       (sreq = CallRequests(sreq) /\ Len(sreq) = 1)
  /\ spc = "retry" =>
       (Len(CallRequests(sreq)) = 2 /\ sreq[Len(sreq)].method = "tools/call")
  /\ spc # "idle" /\ sop.op = "call" => CarriesCall(sreq, sop.name, sop.args)
  /\ (spc = "idle" /\ sres.op = "call") =>
       CarriesCall(sres.reqs, sres.name, sres.args)

\* a call that sent its tools/call twice, around a reconnection
C27_Witness ==
  /\ spc = "idle"
  /\ sres.op = "call"
  /\ sres.name = NumTools
  /\ sres.args = NumArgs
  /\ sres.stat.reconn = "ok"
  /\ Len(CallRequests(sres.reqs)) = 2
  /\ CallRequests(sres.reqs)[2].wire

\* a call_tool has just ended that went into _reconnect
ReconnectionEnded ==
  /\ spc = "idle"
  /\ sres.op = "call"
  /\ sres.stat.reconnects > 0

\* what an operation that has just ended as `res` leaves in the counter: a
\* reconnection attempt adds one, a successful connect() resets it, nothing
\* else writes it
AttemptsLeftBy(res) ==
  CASE res.op = "call" /\ res.stat.reconn = "ok" -> 0
    [] res.op = "call" /\ res.stat.reconn = "failed" -> res.attempts0 + 1
    [] res.op = "connect" /\ res.result = "ok" -> 0
    [] OTHER -> res.attempts0

\* C28: reconnect_attempts counts the reconnection attempts since the last
\* successful connect and never passes max_reconnect_attempts; an attempt
\* increments it, then disconnects the transport once (whether or not that
\* succeeds), then sleeps, then runs connect() once; with the counter at the
\* maximum _reconnect raises at once, the transport neither disconnected
\* nor opened, the counter unchanged and the session not connected.
C28_ReconnectAttemptsBounded ==
  /\ reconnect_attempts <= max_reconnect_attempts
  /\ (spc = "idle" /\ sres.op # "none") =>
       reconnect_attempts = AttemptsLeftBy(sres)
  /\ ReconnectionEnded =>
       IF sres.attempts0 >= max_reconnect_attempts
         THEN /\ sres.err = "exhausted"
              /\ sres.stat.discs = 0
              /\ sres.stat.opens = 0
              /\ ~connected
         ELSE /\ sres.err # "exhausted"
              /\ sres.stat.reconnects = 1
              /\ sres.stat.discs = 1
              /\ sres.stat.opens = 1
  /\ spc \in {"r_disc", "r_sleep"} =>
       /\ sop.attempts0 < max_reconnect_attempts
       /\ reconnect_attempts = sop.attempts0 + 1
       /\ sstat.discs = 1
       /\ sstat.opens = 0
       /\ ~connected
  /\ (sop.op = "call" /\ spc \in {"c_init", "c_list", "retry"}) =>
       (sstat.discs = 1 /\ sstat.opens = 1)

\* the last attempt the counter allows has failed
C28_Witness ==
  /\ ReconnectionEnded
  /\ sres.attempts0 = max_reconnect_attempts - 1
  /\ sres.stat.reconn = "failed"
  /\ sres.stat.discs = 1
  /\ reconnect_attempts = max_reconnect_attempts

\* the methods of the requests a connect() has sent, in order
Methods(reqs) == [k \in 1..Len(reqs) |-> reqs[k].method]

\* C34: connect() opens the transport, then sends one initialize, then one
\* tools/list; it ends connected with reconnect_attempts = 0 exactly when all
\* three succeeded; when a step fails nothing more is sent, the session is
\* left not connected, the error of that step is raised and the transport is
\* not opened a second time.
C34_ConnectStepsInOrder ==
  /\ (sop.op = "connect" /\ spc = "c_open") => (sreq = <<>> /\ sstat.opens = 0)
  /\ (sop.op = "connect" /\ spc = "c_init") =>
       (Methods(sreq) = <<"initialize">> /\ sstat.opens = 1)
  /\ (sop.op = "connect" /\ spc = "c_list") =>
       (Methods(sreq) = <<"initialize", "tools/list">> /\ sstat.opens = 1)
  /\ (sop.op = "connect" /\ spc # "idle") =>
       (connected = sop.connected0
          /\ reconnect_attempts = sop.attempts0)
  /\ (spc = "idle" /\ sres.op = "connect") =>
       /\ sres.stat.opens = 1
       /\ sres.result = "ok" =>
            /\ Methods(sres.reqs) = <<"initialize", "tools/list">>
            /\ \A k \in 1..2 : sres.reqs[k].resp = "ok"
            /\ connected
            /\ reconnect_attempts = 0
       /\ sres.result = "raised" =>
            /\ ~connected
            /\ reconnect_attempts = sres.attempts0
            /\ \/ /\ sres.reqs = <<>>
                  /\ sres.err = "connect_failed"
               \/ /\ Methods(sres.reqs) \in {<<"initialize">>,
                                             <<"initialize", "tools/list">>}
                  /\ sres.reqs[Len(sres.reqs)].resp = sres.err
                  /\ sres.err # "ok"
                  /\ \A k \in 1..(Len(sres.reqs) - 1) :
                       sres.reqs[k].resp = "ok"

\* a connect() whose tools/list failed after a connected session was
\* disconnected
C34_Witness ==
  /\ spc = "idle"
  /\ sres.op = "connect"
  /\ sres.result = "raised"
  /\ Len(sres.reqs) = 2
  /\ sres.err = "closed"
  /\ tools # {}

\* a connect() has just failed after it had opened the transport: the
\* connect() of the owner, or the one of a reconnection
ConnectFailedAfterOpen ==
  /\ spc = "idle"
  /\ \/ sres.op = "connect" /\ sres.result = "raised"
     \/ sres.op = "call" /\ sres.stat.reconn = "failed"
  /\ sres.stat.opens = 1
  /\ sres.reqs # <<>>
  /\ sres.reqs[Len(sres.reqs)].wire

\* C37: when a connect() fails, whether called by the owner or inside a
\* reconnection, the session is not connected and the transport that connect
\* opened has been closed again.
C37_FailedConnectClosesTransport ==
  ConnectFailedAfterOpen => (~connected /\ ~tOpen)

\* C38: when disconnect() has returned the session is not connected, also
\* when the transport's disconnect raised and the error was swallowed.
C38_DisconnectLeavesNotConnected ==
  (spc = "idle" /\ sres.op = "disconnect") =>
    (sres.result = "ok" /\ ~connected)

SessionNext ==
  \/ SConnect
  \/ \E ok \in BOOLEAN : STransportConnect(ok)
  \/ \E kind \in SendOutcomes(TRUE) \cup SendOutcomes(FALSE) :
       SInitResponse(kind)
  \/ \E kind \in SendOutcomes(TRUE) \cup SendOutcomes(FALSE),
        catalog \in SUBSET ToolNames : SListResponse(kind, catalog)
  \/ \E name \in ToolNames, args \in ArgVals : SCallTool(name, args)
  \/ \E kind \in SendOutcomes(TRUE) \cup SendOutcomes(FALSE),
        val \in ResultVals : SCallResponse(kind, val)
  \/ \E ok \in BOOLEAN : SReconnectDisconnect(ok)
  \/ SBackoffOver
  \/ \E kind \in SendOutcomes(TRUE) \cup SendOutcomes(FALSE),
        val \in ResultVals : SRetryResponse(kind, val)
  \/ SDisconnect
  \/ \E ok \in BOOLEAN : SDisconnectDone(ok)

(***************************************************************************)
(* ToolExecutor: process_llm_response fans out one _execute_tool_call task *)
(* per proposal and gathers their results.  A task runs without            *)
(* interruption between two awaits; the decision authority (engine), the   *)
(* escalation handler, the tool client and the audit batcher decide how    *)
(* each of their calls ends, and each of them may raise.                   *)
(***************************************************************************)
Proposals == 1..MaxProposals

\* the correlation id, the decision's reason and the tool's output of the
\* i-th proposal: distinct from those of every other proposal
CallId(i) == <<"call", i>>
Reason(i) == <<"reason", i>>
Output(i) == <<"output", i>>

\* the exitCode the tool server reports with the output of the i-th proposal:
\* data the pipeline passes on without branching on it; some proposals get a
\* non-zero code, some get zero
ExitCode(i) == i % 2

Decisions ==
  [outcome : {"allow", "deny", "escalate"}, allowed : BOOLEAN,
   event_id : {0, 1}]

NoDecision == [outcome |-> "none", allowed |-> FALSE, event_id |-> 0]

NoResult == [kind |-> "none"]

\* a result record, lines 91-95, 103-107, 141-145 and 154-158
ToolError(i, prefix, detail) ==
  [kind |-> "dict", type |-> "tool_error", tool_call_id |-> CallId(i),
   content |-> <<prefix, detail>>]

ToolSuccess(i, content) ==
  [kind |-> "dict", type |-> "tool_success", tool_call_id |-> CallId(i),
   content |-> <<"", content>>]

\* the task ended with an exception
Raised(err) == [kind |-> "exc", err |-> err]

Call(op, ok, arg) == [op |-> op, ok |-> ok, arg |-> arg]

\* lines 124-126 and 149-151: record_result(event_id, content, exit_code) is
\* given the event id of the decision and an exit code
RecordArgs_ExitZero(d, exit) == <<d.event_id, 0>>
RecordArgs(d, exit) == <<d.event_id, exit>>

\* line 90
Denied_OutcomeOnly(d) == d.outcome = "deny"
Denied(d) == d.outcome = "deny" \/ ~d.allowed

\* line 102: `if not approved`
Approved_Unless(v) == v # "raise"
Approved(v) == v = "approve"

\* lines 56-70: gather keeps the order of the tasks; an exception becomes
\* the error record of the proposal at its index
Converted_Kept(i, r) == r
Converted(i, r) ==
  IF r.kind = "exc"
    THEN ToolError(i, "Tool execution failed: ", r.err)
    ELSE r

GatherResults_Reversed(n, results) ==
  [k \in 1..n |-> Converted(k, results[n + 1 - k])]
GatherResults(n, results) ==
  [k \in 1..n |-> Converted(k, results[k])]

ExecRest ==
  /\ hasAudit = FALSE
  /\ epc = "idle"
  /\ resp = [text |-> FALSE, n |-> 0]
  /\ tpc = [i \in Proposals |-> "none"]
  /\ dec = [i \in Proposals |-> NoDecision]
  /\ verdict = [i \in Proposals |-> "none"]
  /\ tlog = [i \in Proposals |-> <<>>]
  /\ taskResult = [i \in Proposals |-> NoResult]
  /\ reordered = FALSE
  /\ final_results = <<>>
  /\ event_ids = {}

ExecInit ==
  /\ hasAudit \in BOOLEAN
  /\ epc = "idle"
  /\ resp = [text |-> FALSE, n |-> 0]
  /\ tpc = [i \in Proposals |-> "none"]
  /\ dec = [i \in Proposals |-> NoDecision]
  /\ verdict = [i \in Proposals |-> "none"]
  /\ tlog = [i \in Proposals |-> <<>>]
  /\ taskResult = [i \in Proposals |-> NoResult]
  /\ reordered = FALSE
  /\ final_results = <<>>
  /\ event_ids = {}

\* task i goes on to `pc` having made the calls `calls`, tracked the events
\* `tracked`, and (when pc = "done") returned or raised `res`
Advance(i, pc, calls, tracked, res) ==
  /\ tpc' = [tpc EXCEPT ![i] = pc]
  /\ tlog' = [tlog EXCEPT ![i] = @ \o calls]
  /\ event_ids' = event_ids \cup tracked
  /\ IF pc = "done"
       THEN /\ taskResult' = [taskResult EXCEPT ![i] = res]
            /\ reordered' =
                 (reordered \/ \E j \in 1..(i - 1) : tpc[j] # "done")
       ELSE UNCHANGED <<taskResult, reordered>>

\* lines 146-158: the except branch, entered with the exception `err`
HandleFailure(i, calls, err, recOk) ==
  IF dec[i].event_id # 0
    THEN IF recOk
      THEN Advance(i, "done",
                   calls \o <<Call("record_result", TRUE,
                                   RecordArgs(dec[i], 1))>>,
                   {<<"error", i>>},
                   ToolError(i, "Tool execution failed: ", err))
      ELSE Advance(i, "done",
                   calls \o <<Call("record_result", FALSE,
                                   RecordArgs(dec[i], 1))>>,
                   {}, Raised(<<"record_result", i>>))
    ELSE /\ recOk
         /\ Advance(i, "done", calls, {},
                    ToolError(i, "Tool execution failed: ", err))

\* lines 41-48: a response with text is ingested and the event id tracked
IngestedText_Untracked(text) == {}
IngestedText(text) == IF text THEN {<<"llm", 0>>} ELSE {}

\* process_llm_response, lines 40-56, up to the await of gather
ProcessLLMResponse(text, n, ingestOk) ==
  /\ epc = "idle"
  /\ ingestOk \/ text
  /\ resp' = [text |-> text, n |-> n]
  /\ IF text /\ ~ingestOk
       THEN /\ epc' = "raised"
            /\ UNCHANGED <<tpc, event_ids, final_results>>
       ELSE /\ event_ids' = IngestedText(text)
            /\ IF n = 0
                 THEN epc' = "returned" /\ UNCHANGED tpc
                 ELSE /\ epc' = "gather"
                      /\ tpc' = [i \in Proposals |->
                                   IF i <= n THEN "start" ELSE "none"]
            /\ final_results' = <<>>
  /\ UNCHANGED <<hasAudit, dec, verdict, tlog, taskResult, reordered>>
  /\ UNCHANGED <<auditVars, sessVars, clientVars, escVars, concVars, finVars>>

\* _execute_tool_call, lines 77-100 and 116-118: from the start of the task
\* to its first await. The tasks start in the order of the proposals.
TaskStart(i, d, fault) ==
  /\ epc = "gather"
  /\ tpc[i] = "start"
  /\ \A j \in 1..(i - 1) : tpc[j] # "start"
  /\ IF fault = "propose"
       THEN /\ d = NoDecision
            /\ Advance(i, "done", <<Call("propose", FALSE, 0)>>, {},
                       Raised(<<"propose", i>>))
            /\ UNCHANGED dec
       ELSE
         /\ d \in Decisions
         /\ dec' = [dec EXCEPT ![i] = d]
         /\ LET proposed == <<Call("propose", TRUE, 0)>>
            IN IF Denied(d)
                 THEN /\ fault = "none"
                      /\ Advance(i, "done", proposed, {},
                                 ToolError(i, "Policy denied: ", Reason(i)))
                 ELSE IF d.outcome = "escalate"
                   THEN IF d.event_id # 0
                     THEN IF fault = "explain"
                       THEN Advance(i, "done",
                                    proposed \o <<Call("explain", FALSE, 0)>>,
                                    {}, Raised(<<"explain", i>>))
                       ELSE Advance(i, "escalating",
                                    proposed \o <<Call("explain", TRUE, 0),
                                                  Call("handle", TRUE, 0)>>,
                                    {}, NoResult)
                     ELSE /\ fault = "none"
                          /\ Advance(i, "escalating",
                                     proposed \o <<Call("handle", TRUE, 0)>>,
                                     {}, NoResult)
                   ELSE /\ fault = "none"
                        /\ Advance(i, "calling",
                                   proposed \o <<Call("call_tool", TRUE, 0)>>,
                                   {}, NoResult)
  /\ UNCHANGED <<hasAudit, epc, resp, verdict, final_results>>
  /\ UNCHANGED <<auditVars, sessVars, clientVars, escVars, concVars, finVars>>

\* escalation.handle ends: lines 100-118, up to the await of mcp.call_tool
EscalationReturns(i, v, ingestOk) ==
  /\ tpc[i] = "escalating"
  /\ ingestOk \/ v = "approve"
  /\ verdict' = [verdict EXCEPT ![i] = v]
  /\ IF v = "raise"
       THEN Advance(i, "done", <<>>, {}, Raised(<<"handle", i>>))
       ELSE IF ~Approved(v)
         THEN Advance(i, "done", <<>>, {},
                      ToolError(i, "Escalation denied by user: ", Reason(i)))
         ELSE IF ingestOk
           THEN Advance(i, "calling",
                        <<Call("ingest_approval", TRUE, 0),
                          Call("call_tool", TRUE, 0)>>,
                        {<<"approval", i>>}, NoResult)
           ELSE Advance(i, "done", <<Call("ingest_approval", FALSE, 0)>>,
                        {}, Raised(<<"ingest", i>>))
  /\ UNCHANGED <<hasAudit, epc, resp, dec, final_results>>
  /\ UNCHANGED <<auditVars, sessVars, clientVars, escVars, concVars, finVars>>

\* mcp.call_tool returns {content, exitCode}: lines 119-145, up to the await
\* of audit_batcher.add_event when a batcher is configured
ToolReturns(i, recOk, rec2Ok) ==
  /\ tpc[i] = "calling"
  /\ recOk \/ rec2Ok
  /\ IF recOk
       THEN LET recorded ==
                  <<Call("call_tool_end", TRUE, ExitCode(i)),
                    Call("record_result", TRUE,
                         RecordArgs(dec[i], ExitCode(i)))>>
            IN IF hasAudit
                 THEN Advance(i, "auditing",
                              recorded \o <<Call("add_event", TRUE, 0)>>,
                              {<<"result", i>>}, NoResult)
                 ELSE Advance(i, "done", recorded, {<<"result", i>>},
                              ToolSuccess(i, Output(i)))
       ELSE HandleFailure(i,
                          <<Call("call_tool_end", TRUE, ExitCode(i)),
                            Call("record_result", FALSE,
                                 RecordArgs(dec[i], ExitCode(i)))>>,
                          <<"record_result", i>>, rec2Ok)
  /\ UNCHANGED <<hasAudit, epc, resp, dec, verdict, final_results>>
  /\ UNCHANGED <<auditVars, sessVars, clientVars, escVars, concVars, finVars>>

\* mcp.call_tool raises: lines 146-158
ToolRaises(i, recOk) ==
  /\ tpc[i] = "calling"
  /\ HandleFailure(i, <<Call("call_tool_end", FALSE, 0)>>, <<"tool", i>>,
                   recOk)
  /\ UNCHANGED <<hasAudit, epc, resp, dec, verdict, final_results>>
  /\ UNCHANGED <<auditVars, sessVars, clientVars, escVars, concVars, finVars>>

\* audit_batcher.add_event returns (lines 141-145) or raises (146-158)
AuditReturns(i, ok, recOk) ==
  /\ tpc[i] = "auditing"
  /\ IF ok
       THEN /\ recOk
            /\ Advance(i, "done", <<Call("add_event_end", TRUE, 0)>>, {},
                       ToolSuccess(i, Output(i)))
       ELSE HandleFailure(i, <<Call("add_event_end", FALSE, 0)>>,
                          <<"audit", i>>, recOk)
  /\ UNCHANGED <<hasAudit, epc, resp, dec, verdict, final_results>>
  /\ UNCHANGED <<auditVars, sessVars, clientVars, escVars, concVars, finVars>>

\* gather returns: lines 58-72
ReturnResults ==
  /\ epc = "gather"
  /\ \A i \in 1..resp.n : tpc[i] = "done"
  /\ final_results' = GatherResults(resp.n, taskResult)
  /\ epc' = "returned"
  /\ UNCHANGED <<hasAudit, resp, tpc, dec, verdict, tlog, taskResult,
                 reordered, event_ids>>
  /\ UNCHANGED <<auditVars, sessVars, clientVars, escVars, concVars, finVars>>

(***************************************************************************)
(* ToolExecutor: the claims.                                               *)
(***************************************************************************)
Calls(i, op) == SelectSeq(tlog[i], LAMBDA c : c.op = op)

NumCalls(i, op) == Len(Calls(i, op))

\* in task i's log a call of `first` that returned precedes the call of `then`
Precedes(i, first, then) ==
  \E a, b \in 1..Len(tlog[i]) :
    /\ a < b
    /\ tlog[i][a].op = first
    /\ tlog[i][a].ok
    /\ tlog[i][b].op = then

Received(i) == i \in 1..resp.n /\ dec[i] # NoDecision

\* C1: for a response with N >= 1 proposals process_llm_response returns N
\* records, the i-th with the tool_call_id of the i-th proposal, whatever the
\* completion order and whichever tasks failed; a tool_success record holds
\* the output of that proposal's own tool call.
C1_OneRecordPerProposalInOrder ==
  (epc = "returned" /\ resp.n >= 1) =>
    /\ Len(final_results) = resp.n
    /\ \A i \in 1..resp.n :
         /\ final_results[i].kind = "dict"
         /\ final_results[i].type \in {"tool_success", "tool_error"}
         /\ final_results[i].tool_call_id = CallId(i)
         /\ final_results[i].type = "tool_success" =>
              /\ final_results[i].content = <<"", Output(i)>>
              /\ NumCalls(i, "call_tool") = 1

\* the last proposal's task ended before the first one's, the first one
\* raised and the last one succeeded
C1_Witness ==
  /\ epc = "returned"
  /\ resp.n = MaxProposals
  /\ reordered
  /\ taskResult[1].kind = "exc"
  /\ final_results[MaxProposals].type = "tool_success"

\* C2: a proposal whose decision is deny, or not allowed, ends at once with a
\* tool_error carrying the reason: no call of the tool client, the escalation
\* handler, record_result or the audit batcher is made for it.
C2_DeniedDoesNothing ==
  \A i \in Proposals :
    (Received(i) /\ (dec[i].outcome = "deny" \/ ~dec[i].allowed)) =>
      /\ tpc[i] = "done"
      /\ taskResult[i] = ToolError(i, "Policy denied: ", Reason(i))
      /\ NumCalls(i, "call_tool") = 0
      /\ NumCalls(i, "handle") = 0
      /\ NumCalls(i, "record_result") = 0
      /\ NumCalls(i, "add_event") = 0
      /\ epc = "returned" => final_results[i] = taskResult[i]

\* a proposal refused because allowed is false although the outcome is not
\* deny, next to a sibling that ran its tool
C2_Witness ==
  /\ epc = "returned"
  /\ \E i, j \in 1..resp.n :
       /\ dec[i].outcome = "escalate"
       /\ ~dec[i].allowed
       /\ dec[i].event_id # 0
       /\ final_results[j].type = "tool_success"

\* an escalated proposal whose task has ended
Escalated(i) ==
  /\ Received(i)
  /\ tpc[i] = "done"
  /\ dec[i].outcome = "escalate"

\* the handler said no: the tool client is not called, the result is an error
C3_Refused(i) ==
  verdict[i] = "deny" =>
    /\ NumCalls(i, "call_tool") = 0
    /\ taskResult[i].kind = "dict"
    /\ taskResult[i].type = "tool_error"

\* C3 as stated: when the handler returns true, exactly one approval event
\* is ingested and after it the tool client is called exactly once.
C3_ApprovedAlwaysCalls ==
  \A i \in Proposals :
    Escalated(i) =>
      /\ C3_Refused(i)
      /\ verdict[i] = "approve" =>
           /\ Len(SelectSeq(Calls(i, "ingest_approval"), LAMBDA c : c.ok)) = 1
           /\ NumCalls(i, "call_tool") = 1
           /\ Precedes(i, "ingest_approval", "call_tool")

\* C3, amended: when the handler returns false the tool client is not called
\* and the result is a tool_error; when it returns true the approval ingest
\* is made exactly once and, if it returns, the tool client is called
\* exactly once after it; if that ingest raises, the tool client is not
\* called and the proposal ends with an error.
C3_ApprovedCallsAfterIngest ==
  \A i \in Proposals :
    Escalated(i) =>
      /\ C3_Refused(i)
      /\ verdict[i] = "approve" =>
           /\ NumCalls(i, "ingest_approval") = 1
           /\ Calls(i, "ingest_approval")[1].ok =>
                /\ NumCalls(i, "call_tool") = 1
                /\ Precedes(i, "ingest_approval", "call_tool")
           /\ ~Calls(i, "ingest_approval")[1].ok =>
                /\ NumCalls(i, "call_tool") = 0
                /\ taskResult[i].kind = "exc"
                /\ epc = "returned" => final_results[i].type = "tool_error"

\* an approved escalation whose tool ran, next to a refused one
C3_Witness ==
  /\ epc = "returned"
  /\ \E i, j \in 1..resp.n :
       /\ dec[i].outcome = "escalate"
       /\ verdict[i] = "approve"
       /\ final_results[i].type = "tool_success"
       /\ dec[j].outcome = "escalate"
       /\ verdict[j] = "deny"

\* mcp.call_tool returned a result to task i / raised in task i
ToolReturned(i) ==
  Received(i) /\ \E k \in 1..Len(tlog[i]) :
                   tlog[i][k] = Call("call_tool_end", TRUE, ExitCode(i))

ToolRaised(i) ==
  Received(i) /\ \E k \in 1..Len(tlog[i]) :
                   tlog[i][k] = Call("call_tool_end", FALSE, 0)

\* what process_llm_response reports for a task that is done
Reported(i) == Converted(i, taskResult[i])

\* record_result and, when a batcher is configured, add_event returned
RecordedAndAudited(i) ==
  /\ Calls(i, "record_result")[1].ok
  /\ hasAudit => Calls(i, "add_event_end") = <<Call("add_event_end", TRUE, 0)>>

\* C19 (as stated): whenever mcp.call_tool returns, record_result is called
\* with the decision's event id and exit code 0 and the proposal's result is
\* a tool_success with the tool's content.
C19_RecordsExitZeroAndSucceeds ==
  \A i \in Proposals :
    (ToolReturned(i) /\ tpc[i] = "done") =>
      /\ Calls(i, "record_result") # <<>>
      /\ Calls(i, "record_result")[1].arg = <<dec[i].event_id, 0>>
      /\ taskResult[i] = ToolSuccess(i, Output(i))

\* C19 (amended): whenever mcp.call_tool returns, record_result is called
\* next with the decision's event id and the exit code the tool reported;
\* the proposal's result is a tool_success with the tool's content when
\* record_result and the audit add_event (if configured) return, and a
\* tool_error when either raises.
C19_RecordsToolExitCode ==
  \A i \in Proposals :
    ToolReturned(i) =>
      /\ Precedes(i, "call_tool_end", "record_result")
      /\ ~Precedes(i, "record_result", "call_tool_end")
      /\ Calls(i, "record_result")[1].arg = <<dec[i].event_id, ExitCode(i)>>
      /\ tpc[i] = "done" =>
           IF RecordedAndAudited(i)
             THEN taskResult[i] = ToolSuccess(i, Output(i))
             ELSE Reported(i).type = "tool_error"

\* a tool reported a non-zero exit code, it was recorded and the proposal
\* succeeded, while a sibling's audit event failed after its tool returned
C19_Witness ==
  \E i, j \in Proposals :
    /\ ToolReturned(i) /\ ToolReturned(j)
    /\ ExitCode(i) # 0
    /\ tpc[i] = "done" /\ tpc[j] = "done"
    /\ taskResult[i] = ToolSuccess(i, Output(i))
    /\ ~RecordedAndAudited(j)

\* C20: whenever mcp.call_tool raises, record_result is called with the
\* decision's event id, whatever its value, and exit code 1, the proposal's
\* result is a tool_error, and the siblings keep their own results.
C20_FailureRecordedWithExitOne ==
  \A i \in Proposals :
    (ToolRaised(i) /\ tpc[i] = "done") =>
      /\ Calls(i, "record_result") # <<>>
      /\ Calls(i, "record_result")[1].arg = <<dec[i].event_id, 1>>
      /\ Reported(i).type = "tool_error"
      /\ Reported(i).tool_call_id = CallId(i)

\* engine.explain raised in task i
ExplainFailed(i) ==
  Received(i) /\ Calls(i, "explain") = <<Call("explain", FALSE, 0)>>

\* C21: for an escalate decision a failure of explain does not abort the
\* escalation: the handler is still invoked for the proposal and its verdict
\* decides whether the tool is called.
C21_ExplainFailureStillEscalates ==
  \A i \in Proposals :
    (ExplainFailed(i) /\ dec[i].outcome = "escalate") =>
      /\ NumCalls(i, "handle") = 1
      /\ tpc[i] = "done" => verdict[i] # "none"

\* a call of task i to the decision authority raised, or the escalation
\* handler raised
AuthorityFailed(i) ==
  \/ \E k \in 1..Len(tlog[i]) :
       /\ tlog[i][k].op \in {"propose", "explain", "ingest_approval",
                             "record_result"}
       /\ ~tlog[i][k].ok
  \/ verdict[i] = "raise"

\* nothing failed while task i ran and its tool returned
Undisturbed(i) ==
  /\ ToolReturned(i)
  /\ \A k \in 1..Len(tlog[i]) : tlog[i][k].ok
  /\ verdict[i] # "raise"

\* C22: an exception of the decision authority (propose, explain, ingest,
\* record_result) or of the escalation handler while a proposal is processed
\* becomes that proposal's tool_error: process_llm_response does not raise
\* once the proposals are dispatched, and every other proposal is still
\* proposed, run and reported with its own result.
C22_FailureIsolatedToProposal ==
  /\ epc = "raised" => \A i \in Proposals : tlog[i] = <<>>
  /\ (epc = "returned" /\ resp.n >= 1) =>
       /\ Len(final_results) = resp.n
       /\ \A i \in 1..resp.n :
            /\ NumCalls(i, "propose") = 1
            /\ tpc[i] = "done"
            /\ taskResult[i].kind = "exc" =>
                 final_results[i] =
                   ToolError(i, "Tool execution failed: ", taskResult[i].err)
            /\ AuthorityFailed(i) =>
                 /\ final_results[i].type = "tool_error"
                 /\ final_results[i].tool_call_id = CallId(i)
            /\ Undisturbed(i) => final_results[i] = ToolSuccess(i, Output(i))

\* the task of the first proposal raised and the second proposal succeeded
C22_Witness ==
  /\ epc = "returned"
  /\ resp.n >= 2
  /\ AuthorityFailed(1)
  /\ taskResult[1].kind = "exc"
  /\ Undisturbed(2)
  /\ final_results[2].type = "tool_success"

\* C23: with an audit batcher configured, every proposal whose tool call
\* completed, by returning or by raising, adds exactly one AuditEvent to the
\* batcher, and a denied proposal adds none.
C23_OneAuditEventPerToolCall ==
  hasAudit =>
    \A i \in Proposals :
      tpc[i] = "done" =>
        /\ (ToolReturned(i) \/ ToolRaised(i)) => NumCalls(i, "add_event") = 1
        /\ (Received(i) /\ Denied(dec[i])) => NumCalls(i, "add_event") = 0

\* the response held free text and no tool call
TextOnly == resp.text /\ resp.n = 0

AuditFailedAfterTool(i) ==
  /\ ToolReturned(i)
  /\ tpc[i] = "done"
  /\ Calls(i, "add_event_end") = <<Call("add_event_end", FALSE, 0)>>

\* C33: a failed audit push does not change the result of the tool call:
\* when the tool call of a proposal returned and add_event raised, the
\* proposal's result is still the tool_success with the tool's content, and
\* record_result was called once, with the exit code of the tool.
C33_AuditFailureKeepsSuccess ==
  \A i \in Proposals :
    AuditFailedAfterTool(i) =>
      /\ Reported(i) = ToolSuccess(i, Output(i))
      /\ Calls(i, "record_result") =
           <<Call("record_result", TRUE, RecordArgs(dec[i], ExitCode(i)))>>

\* C35: record_result is called at most once for every proposal, whatever
\* fails while the proposal is processed: the tool call, record_result
\* itself, or the audit push.
C35_RecordResultAtMostOnce ==
  \A i \in Proposals : NumCalls(i, "record_result") <= 1

Next ==
  \/ \E text \in BOOLEAN, n \in 0..MaxProposals, ingestOk \in BOOLEAN :
       ProcessLLMResponse(text, n, ingestOk)
  \/ \E i \in Proposals, d \in Decisions \cup {NoDecision},
        fault \in {"none", "propose", "explain"} : TaskStart(i, d, fault)
  \/ \E i \in Proposals, v \in {"approve", "deny", "raise"},
        ingestOk \in BOOLEAN : EscalationReturns(i, v, ingestOk)
  \/ \E i \in Proposals, recOk \in BOOLEAN, rec2Ok \in BOOLEAN :
        ToolReturns(i, recOk, rec2Ok)
  \/ \E i \in Proposals, recOk \in BOOLEAN : ToolRaises(i, recOk)
  \/ \E i \in Proposals, ok \in BOOLEAN, recOk \in BOOLEAN :
       AuditReturns(i, ok, recOk)
  \/ ReturnResults

(***************************************************************************)
(* MCPClient (mcp/client.py, lines 119-178): the sessions of all the        *)
(* configured servers.  Each await of an MCPServer method is one step; the  *)
(* method is summarised by what it returns or raises and by what it leaves  *)
(* in the server object, as the session model above establishes it.  The    *)
(* owner runs one operation of the client at a time.                        *)
(***************************************************************************)

\* config.mcp_servers, in configuration order; the names are the keys of the
\* mcpServers mapping, hence distinct
ServerNames == 1..NumServers

\* the tool names the servers of the client may offer
RoutedNames == 1..NumRoutedTools

\* an MCPServer object as __init__ leaves it
NoServer == [connected |-> FALSE, tools |-> {}, attempts |-> 0]

NoClientOp == [op |-> "none", name |-> 0, i |-> 0, todo |-> <<>>,
               tried |-> <<>>]

NoClientRes == [op |-> "none", name |-> 0, result |-> "none", err |-> "none",
                from |-> 0, todo |-> <<>>, tried |-> <<>>]

\* one awaited MCPServer method: the server and how the method ended
Attempt(s, err) == [server |-> s, err |-> err]

\* self.servers[name] = server: a new key goes last, a present key keeps its
\* place
Put(servs, s) == IF s \in Range(servs) THEN servs ELSE Append(servs, s)

\* connect_all, lines 130-137: the server is registered after its connect()
\* returned; when connect() raises the error is logged and the loop goes on
AfterConnect_Always(servs, s, ok) == Put(servs, s)
AfterConnect(servs, s, ok) == IF ok THEN Put(servs, s) ELSE servs

\* MCPServer.disconnect, lines 110-116: an exception of the transport is
\* logged, never raised to disconnect_all
DisconnectPropagates_Unhandled(ok) == ~ok
DisconnectPropagates(ok) == FALSE

\* call_tool, lines 170-171: the position in self.servers, from position
\* `from` on, of the first server that holds the name and is connected; 0
\* when there is none
RECURSIVE NextCandidate_AnyState(_, _, _, _)
NextCandidate_AnyState(servs, st, name, from) ==
  IF from > Len(servs) THEN 0
  ELSE IF name \in st[servs[from]].tools THEN from
  ELSE NextCandidate_AnyState(servs, st, name, from + 1)

RECURSIVE NextCandidate(_, _, _, _)
NextCandidate(servs, st, name, from) ==
  IF from > Len(servs) THEN 0
  ELSE IF name \in st[servs[from]].tools /\ st[servs[from]].connected
         THEN from
  ELSE NextCandidate(servs, st, name, from + 1)

\* list_all_tools, lines 145-151, from position `from` on: the descriptors
\* as (server, tool name) pairs
RECURSIVE ListFrom_Any(_, _, _)
ListFrom_Any(servs, st, from) ==
  IF from > Len(servs) THEN {}
  ELSE {<<servs[from], t>> : t \in st[servs[from]].tools}
         \cup ListFrom_Any(servs, st, from + 1)

RECURSIVE ListFrom(_, _, _)
ListFrom(servs, st, from) ==
  IF from > Len(servs) THEN {}
  ELSE (IF st[servs[from]].connected
          THEN {<<servs[from], t>> : t \in st[servs[from]].tools}
          ELSE {})
         \cup ListFrom(servs, st, from + 1)

list_all_tools == ListFrom(servers, srv, 1)

\* MCPServer.call_tool (lines 70-90) on a connected server that holds the
\* name, as one step.  first: how the tools/call ended; reconn, catalog: the
\* reconnection that a caught failure starts; retry: how the resend ended
\* ("none" for what is not reached).
ServerCallRuns ==
  {[first |-> "ok", reconn |-> "none", catalog |-> {}, retry |-> "none"]}
    \cup {[first |-> f, reconn |-> "none", catalog |-> {}, retry |-> "none"] :
            f \in {k \in SendOutcomes(TRUE) : k # "ok" /\ ~CaughtByCallTool(k)}}
    \cup {[first |-> f, reconn |-> "failed", catalog |-> {},
           retry |-> "none"] :
            f \in {k \in SendOutcomes(TRUE) : CaughtByCallTool(k)}}
    \cup {[first |-> f, reconn |-> "ok", catalog |-> c, retry |-> r] :
            f \in {k \in SendOutcomes(TRUE) : CaughtByCallTool(k)},
            c \in SUBSET RoutedNames, r \in SendOutcomes(TRUE)}

\* the server object after the call and the error raised to the caller
\* ("none" when a result is returned)
ServerCall(st, run) ==
  IF run.first = "ok" THEN [st |-> st, err |-> "none"]
  ELSE IF run.reconn = "none" THEN [st |-> st, err |-> run.first]
  ELSE IF Exhausted(st.attempts)
         THEN [st |-> [st EXCEPT !.connected = FALSE], err |-> "exhausted"]
  ELSE IF run.reconn = "failed"
         THEN [st |-> [st EXCEPT !.connected = FALSE, !.attempts = @ + 1],
               err |-> "connect_failed"]
  ELSE [st |-> [connected |-> TRUE,
                tools |-> ToolsAfterList(st.tools, run.catalog),
                attempts |-> AttemptsAfterConnect(st.attempts + 1)],
        err |-> IF run.retry = "ok" THEN "none" ELSE run.retry]

ClientInit ==
  /\ servers = <<>>
  /\ srv = [s \in ServerNames |-> NoServer]
  /\ cpc = "idle"
  /\ cop = NoClientOp
  /\ cres = NoClientRes

\* the running operation of the client returns or raises
EndClientOp(result, err, from, tried) ==
  /\ cpc' = "idle"
  /\ cop' = NoClientOp
  /\ cres' = [op |-> cop.op, name |-> cop.name, result |-> result,
              err |-> err, from |-> from, todo |-> cop.todo,
              tried |-> tried]

\* connect_all, lines 129-133, up to the first await of server.connect();
\* main.py calls it once, on a client that holds no session
CConnectAll ==
  /\ UNCHANGED <<auditVars, sessVars, execVars, escVars, concVars, finVars>>
  /\ cpc = "idle"
  /\ servers = <<>>
  /\ cpc' = "connecting"
  /\ cop' = [NoClientOp EXCEPT !.op = "connect_all", !.i = 1]
  /\ UNCHANGED <<servers, srv, cres>>

\* connect_all, lines 133-137: server.connect() of the i-th configured server
\* returns (with the catalog of its tools/list) or raises
CServerConnectReturns(ok, catalog) ==
  /\ UNCHANGED <<auditVars, sessVars, execVars, escVars, concVars, finVars>>
  /\ cpc = "connecting"
  /\ ok \/ catalog = {}
  /\ LET s == cop.i
         tried == Append(cop.tried,
                         Attempt(s, IF ok THEN "none" ELSE "connect_failed"))
     IN /\ servers' = AfterConnect(servers, s, ok)
        /\ srv' = IF ok
                    THEN [srv EXCEPT ![s] =
                            [connected |-> TRUE,
                             tools |-> ToolsAfterList({}, catalog),
                             attempts |-> AttemptsAfterConnect(0)]]
                    ELSE srv
        /\ IF s = NumServers
             THEN EndClientOp("returned", "none", 0, tried)
             ELSE /\ cop' = [cop EXCEPT !.i = s + 1, !.tried = tried]
                  /\ UNCHANGED <<cpc, cres>>

\* the loop of call_tool, lines 170-178, from position `from` on: the next
\* candidate is awaited, or ValueError is raised when there is none
RouteFrom(name, from, st, tried) ==
  LET c == NextCandidate(servers, st, name, from)
  IN IF c = 0
       THEN /\ cpc' = "idle"
            /\ cop' = NoClientOp
            /\ cres' = [NoClientRes EXCEPT !.op = "call", !.name = name,
                          !.result = "raised", !.err = "tool_not_found",
                          !.tried = tried]
       ELSE /\ cpc' = "calling"
            /\ cop' = [NoClientOp EXCEPT !.op = "call", !.name = name,
                         !.i = c, !.tried = tried]
            /\ UNCHANGED cres

\* call_tool(name, arguments), lines 170-173, up to the first await
CCallTool(name) ==
  /\ UNCHANGED <<auditVars, sessVars, execVars, escVars, concVars, finVars>>
  /\ cpc = "idle"
  /\ RouteFrom(name, 1, srv, <<>>)
  /\ UNCHANGED <<servers, srv>>

\* call_tool, lines 173-177: server.call_tool returns, or raises and the
\* loop goes on with the next server
CServerCallReturns(run) ==
  /\ UNCHANGED <<auditVars, sessVars, execVars, escVars, concVars, finVars>>
  /\ cpc = "calling"
  /\ LET s == servers[cop.i]
         out == ServerCall(srv[s], run)
         st == [srv EXCEPT ![s] = out.st]
         tried == Append(cop.tried, Attempt(s, out.err))
     IN /\ srv' = st
        /\ IF out.err = "none"
             THEN /\ cpc' = "idle"
                  /\ cop' = NoClientOp
                  /\ cres' = [NoClientRes EXCEPT !.op = "call",
                                !.name = cop.name, !.result = "returned",
                                !.from = s, !.tried = tried]
             ELSE RouteFrom(cop.name, cop.i + 1, st, tried)
  /\ UNCHANGED servers

\* disconnect_all, lines 141-143, up to the first await of
\* server.disconnect(); with no session only clear() runs
CDisconnectAll ==
  /\ UNCHANGED <<auditVars, sessVars, execVars, escVars, concVars, finVars>>
  /\ cpc = "idle"
  /\ IF servers = <<>>
       THEN /\ cpc' = "idle"
            /\ cop' = NoClientOp
            /\ cres' = [NoClientRes EXCEPT !.op = "disconnect_all",
                          !.result = "returned"]
       ELSE /\ cpc' = "disconnecting"
            /\ cop' = [NoClientOp EXCEPT !.op = "disconnect_all", !.i = 1,
                         !.todo = servers]
            /\ UNCHANGED cres
  /\ UNCHANGED <<servers, srv>>

\* disconnect_all, lines 141-143: server.disconnect() of the i-th session
\* returns; ok = FALSE when the transport raised inside it (connected is then
\* left as it was); after the last one self.servers is cleared
CServerDisconnectReturns(ok) ==
  /\ UNCHANGED <<auditVars, sessVars, execVars, escVars, concVars, finVars>>
  /\ cpc = "disconnecting"
  /\ LET s == cop.todo[cop.i]
         st == [srv EXCEPT ![s].connected = IF ok THEN FALSE ELSE @]
         tried == Append(cop.tried,
                         Attempt(s, IF ok THEN "none" ELSE "disconnect_failed"))
     IN IF DisconnectPropagates(ok)
          THEN /\ EndClientOp("raised", "disconnect_failed", 0, tried)
               /\ srv' = st
               /\ UNCHANGED servers
          ELSE IF cop.i = Len(cop.todo)
                 THEN /\ EndClientOp("returned", "none", 0, tried)
                      /\ servers' = <<>>
                      /\ srv' = [x \in ServerNames |-> NoServer]
                 ELSE /\ cop' = [cop EXCEPT !.i = @ + 1, !.tried = tried]
                      /\ srv' = st
                      /\ UNCHANGED <<servers, cpc, cres>>

\* the last operation the client completed
ClientEnded(op) == cpc = "idle" /\ cres.op = op

\* the server at position k of self.servers holds the name and is connected
Matches(k, name) ==
  srv[servers[k]].connected /\ name \in srv[servers[k]].tools

\* the servers of the attempts, in order
Attempted(tried) == [k \in 1..Len(tried) |-> tried[k].server]

\* the descriptors list_all_tools returns for server s
Listed(s) == {d \in list_all_tools : d[1] = s}

\* C14: when the call on the first matching session fails with an
\* application-level error, the caller receives a failure and no tools/call
\* goes to any other session; only a transport-level failure lets the client
\* try the next candidate.
C14_NoFallThroughOnApplicationError ==
  /\ cpc = "calling" =>
       \A k \in 1..Len(cop.tried) : cop.tried[k].err # "protocol"
  /\ ClientEnded("call") =>
       \A k \in 1..Len(cres.tried) :
         cres.tried[k].err = "protocol" =>
           (k = Len(cres.tried) /\ cres.result = "raised")

\* C15: call_tool sends the call to the first server, in registration order,
\* that is connected and holds the name, and returns what that server
\* returns; when no server matches it raises "not found" and calls no
\* server.
C15_RoutesToFirstMatch ==
  /\ (cpc = "calling" /\ cop.tried = <<>>) =>
       /\ Matches(cop.i, cop.name)
       /\ \A j \in 1..(cop.i - 1) : ~Matches(j, cop.name)
  /\ (ClientEnded("call") /\ cres.tried = <<>>) =>
       /\ cres.result = "raised"
       /\ cres.err = "tool_not_found"
       /\ \A j \in 1..Len(servers) : ~Matches(j, cres.name)
  /\ (ClientEnded("call") /\ cres.result = "returned") =>
       /\ Last(cres.tried) = Attempt(cres.from, "none")
       /\ cres.from \in Range(servers)

\* the call goes to the second server: the first one holds the name but lost
\* its connection
C15_Witness ==
  /\ cpc = "calling"
  /\ cop.tried = <<>>
  /\ cop.i = 2
  /\ cop.name \in srv[servers[1]].tools

C17_ListsOnlyConnected ==
  /\ list_all_tools =
       {d \in ServerNames \X RoutedNames :
          /\ d[1] \in Range(servers)
          /\ srv[d[1]].connected
          /\ d[2] \in srv[d[1]].tools}
  /\ ClientEnded("call") =>
       \A k \in 1..Len(cres.tried) :
         cres.tried[k].err = "connect_failed" =>
           Listed(cres.tried[k].server) = {}
  /\ cpc = "disconnecting" =>
       \A k \in 1..Len(cop.tried) :
         cop.tried[k].err = "none" => Listed(cop.tried[k].server) = {}

\* a server that holds tools lost its connection while another one is listed
C17_Witness ==
  /\ ClientEnded("call")
  /\ \E k \in 1..Len(cres.tried) :
       /\ cres.tried[k].err = "connect_failed"
       /\ srv[cres.tried[k].server].tools # {}
  /\ list_all_tools # {}

\* C18: disconnect_all calls disconnect() on every session even when some of
\* them fail, returns normally and leaves self.servers empty; a later
\* call_tool finds no server.
C18_DisconnectAllEmpties ==
  /\ ClientEnded("disconnect_all") =>
       /\ cres.result = "returned"
       /\ Attempted(cres.tried) = cres.todo
       /\ servers = <<>>
       /\ list_all_tools = {}
  /\ (ClientEnded("call") /\ servers = <<>>) =>
       /\ cres.result = "raised"
       /\ cres.err = "tool_not_found"
       /\ cres.tried = <<>>

\* the disconnect of the first of two sessions failed
C18_Witness ==
  /\ ClientEnded("disconnect_all")
  /\ Len(cres.todo) = NumServers
  /\ cres.tried[1].err = "disconnect_failed"
  /\ cres.tried[NumServers].err = "none"

\* the sessions whose reconnection has failed
Unavailable == {s \in ServerNames : srv[s].attempts > 0}

\* a session whose reconnection has failed is left alone by every step but
\* the end of disconnect_all, which drops it
StaysUnavailable ==
  \A s \in Unavailable :
    \/ srv'[s] = srv[s]
    \/ cpc = "disconnecting" /\ servers' = <<>> /\ srv'[s] = NoServer

\* C39: through the client, one call at a time, a session whose
\* reconnection failed once is out of service for good: it is not connected
\* and its reconnect_attempts is 1, call_tool only ever awaits a session
\* that is connected with reconnect_attempts = 0, and nothing changes the
\* failed session until disconnect_all drops it.
C39_FailedReconnectionIsFinal ==
  /\ [](/\ \A s \in ServerNames :
             /\ srv[s].attempts <= 1
             /\ srv[s].attempts = 1 =>
                  (~srv[s].connected /\ s \in Range(servers))
        /\ cpc = "calling" =>
             (/\ srv[servers[cop.i]].connected
              /\ srv[servers[cop.i]].attempts = 0))
  /\ [][StaysUnavailable]_vars

\* a call_tool for a name the failed session holds has ended without
\* awaiting that session
C39_Witness ==
  /\ ClientEnded("call")
  /\ \E s \in Unavailable :
       /\ cres.name \in srv[s].tools
       /\ s \notin Range(Attempted(cres.tried))

ClientNext ==
  \/ CConnectAll
  \/ \E ok \in BOOLEAN, catalog \in SUBSET RoutedNames :
       CServerConnectReturns(ok, catalog)
  \/ \E name \in RoutedNames : CCallTool(name)
  \/ \E run \in ServerCallRuns : CServerCallReturns(run)
  \/ CDisconnectAll
  \/ \E ok \in BOOLEAN : CServerDisconnectReturns(ok)

(***************************************************************************)
(* EscalationHandler: the two handlers the agent ships.  AutoDenyEscalation *)
(* (escalation/auto_deny.py) and TerminalEscalation (escalation/terminal.py)*)
(* whose handle() reads one line with input().  A line is a sequence of     *)
(* characters; strip() and lower() are computed character by character.     *)
(***************************************************************************)

\* the characters an answer is made of
AnswerChars == {"y", "Y", "e", "E", "s", "S", "n", " "}

\* the lines input() may return, up to MaxAnswerLen characters
Lines == UNION {[1..n -> AnswerChars] : n \in 0..MaxAnswerLen}

\* str.lower(), one character
LowerChar(c) ==
  CASE c = "Y" -> "y"
    [] c = "E" -> "e"
    [] c = "S" -> "s"
    [] OTHER -> c

lower(l) == [k \in 1..Len(l) |-> LowerChar(l[k])]

\* str.strip(): the blanks at both ends go
RECURSIVE lstrip(_)
lstrip(l) == IF l # <<>> /\ Head(l) = " " THEN lstrip(Tail(l)) ELSE l

strip(l) == Reversed(lstrip(Reversed(lstrip(l))))

\* terminal.py line 33: response in ("y", "yes")
IsYes(response) == response \in {<<"y">>, <<"y", "e", "s">>}

\* terminal.py lines 32-33
TerminalApproved(l) == IsYes(lower(strip(l)))

\* terminal.py line 39: except (EOFError, KeyboardInterrupt)
CaughtByTerminal_None(exc) == FALSE
CaughtByTerminal(exc) == exc \in {"EOFError", "KeyboardInterrupt"}

\* what input() may raise: end of input, an interrupt, any other error
InputErrors == {"EOFError", "KeyboardInterrupt", "OSError"}

NoEscalation == [handler |-> "none", pc |-> "idle", input |-> <<>>,
                 exc |-> "none", result |-> "none"]

EscRest == esc = NoEscalation

EscInit == esc = NoEscalation

\* executor.py line 100: escalation.handle is awaited; the auto-deny handler
\* returns at once (auto_deny.py line 15), the terminal handler prints the
\* prompt and blocks in input() (terminal.py lines 20-31)
HandleCalled(h) ==
  /\ UNCHANGED <<auditVars, sessVars, execVars, clientVars, concVars, finVars>>
  /\ esc.pc = "idle"
  /\ esc' = IF h = "auto_deny"
              THEN [NoEscalation EXCEPT !.handler = h, !.pc = "done",
                                        !.result = "false"]
              ELSE [NoEscalation EXCEPT !.handler = h, !.pc = "input"]

\* input() returns the line l: terminal.py lines 32-38
InputReturns(l) ==
  /\ UNCHANGED <<auditVars, sessVars, execVars, clientVars, concVars, finVars>>
  /\ esc.pc = "input"
  /\ esc' = [esc EXCEPT !.pc = "done", !.input = l,
               !.result = IF TerminalApproved(l) THEN "true" ELSE "false"]

\* input() raises: terminal.py lines 39-41
InputRaises(exc) ==
  /\ UNCHANGED <<auditVars, sessVars, execVars, clientVars, concVars, finVars>>
  /\ esc.pc = "input"
  /\ esc' = [esc EXCEPT !.pc = "done", !.exc = exc,
               !.result = IF CaughtByTerminal(exc) THEN "false" ELSE "raised"]

\* the next escalation
HandleAgain ==
  /\ UNCHANGED <<auditVars, sessVars, execVars, clientVars, concVars, finVars>>
  /\ esc.pc = "done"
  /\ esc' = NoEscalation

\* what the executor takes the outcome of handle() for (the verdict of
\* EscalationReturns)
VerdictOf(result) ==
  CASE result = "true" -> "approve"
    [] result = "false" -> "deny"
    [] OTHER -> "raise"

\* C26: a handler signals denial by returning false, never by raising: the
\* auto-deny handler returns false for every escalation, so that the
\* executor never goes on to the tool; the terminal handler returns true
\* only when the answer, stripped and lower-cased, is "y" or "yes", false for
\* every other answer, and false when the input is closed or interrupted.
C26_DenialIsFalse ==
  esc.pc = "done" =>
    /\ esc.handler = "auto_deny" =>
         /\ esc.result = "false"
         /\ ~Approved(VerdictOf(esc.result))
    /\ esc.handler = "terminal" =>
         /\ esc.result = "true" <=>
              /\ esc.exc = "none"
              /\ lower(strip(esc.input)) \in {<<"y">>, <<"y", "e", "s">>}
         /\ esc.exc = "none" => esc.result \in {"true", "false"}
         /\ esc.exc \in {"EOFError", "KeyboardInterrupt"} =>
              esc.result = "false"
         /\ esc.result = "true" => Approved(VerdictOf(esc.result))

\* the terminal handler denied because the input was closed
C26_Witness ==
  /\ esc.pc = "done"
  /\ esc.handler = "terminal"
  /\ esc.exc = "EOFError"
  /\ esc.result = "false"

EscalationNext ==
  \/ \E h \in {"auto_deny", "terminal"} : HandleCalled(h)
  \/ \E l \in Lines : InputReturns(l)
  \/ \E exc \in InputErrors : InputRaises(exc)
  \/ HandleAgain

(***************************************************************************)
(* MCPServer under concurrent callers: process_llm_response gathers one    *)
(* task per proposal (executor.py lines 53-56), and every task whose tool  *)
(* lives on the same server awaits call_tool on the same MCPServer and the *)
(* same StdioTransport.  A caller is suspended only in an await: in the    *)
(* readline of send_request (transport.py lines 70-73), in disconnect and  *)
(* in the back-off sleep.  A request is the id written to the stdin of the *)
(* server process together with that process; the reader of a caller reads *)
(* the stdout of the process its request was written to.                   *)
(***************************************************************************)
Callers == 1..NumCallers

\* proc: the process self.process refers to (meaningful while tOpen)
\* spawned: the processes started so far
\* request_id: StdioTransport.request_id
\* wire: the requests written and not yet answered or lost
\* pos, own, rd: where each caller is suspended, the id of its last request,
\*   and the process whose stdout its reader reads
\* got: the id of the request whose response call_tool returned (0: none)
\* sentIn: a caller wrote a request while another one was reconnecting
NoConc == [proc |-> 1, spawned |-> 1, request_id |-> 0, wire |-> {},
           pos |-> [c \in Callers |-> "idle"],
           own |-> [c \in Callers |-> 0],
           rd |-> [c \in Callers |-> 0],
           got |-> [c \in Callers |-> 0],
           sentIn |-> FALSE]

ConcRest == conc = NoConc

\* the session process_llm_response finds: connect_all has connected it
ConcInit ==
  /\ connected = TRUE
  /\ tools = ToolNames
  /\ reconnect_attempts = 0
  /\ tOpen = TRUE
  /\ spc = "idle"
  /\ sop = NoOp
  /\ sreq = <<>>
  /\ sstat = NoStat
  /\ sres = NoRes
  /\ conc = NoConc

\* between the first failure of its tools/call and the end of connect()
InReconnect == {"r_disc", "r_sleep", "c_init", "c_list"}

Reconnecting(cn) == {c \in Callers : cn.pos[c] \in InReconnect}

\* send_request, lines 56-71: the next id is written to the process and the
\* caller suspends in readline
Written(cn, c, pos) ==
  [cn EXCEPT !.request_id = @ + 1,
             !.wire = @ \cup {[id |-> cn.request_id + 1, proc |-> cn.proc]},
             !.own[c] = cn.request_id + 1,
             !.rd[c] = cn.proc,
             !.pos[c] = pos,
             !.sentIn = @ \/ (/\ pos \in {"call", "retry"}
                               /\ Reconnecting(cn) \ {c} # {})]

\* the answers the reader of caller c may read: no id is compared (lines
\* 77-81), so any line the process wrote
Readable(cn, c) == {r \in cn.wire : r.proc = cn.rd[c]}

\* call_tool, lines 81-85, and _reconnect, lines 94-103: the failure is
\* caught, and unless the attempts are exhausted a reconnection starts
ConcRecover(cn, c) ==
  /\ connected' = FALSE
  /\ IF Exhausted(reconnect_attempts)
       THEN /\ conc' = [cn EXCEPT !.pos[c] = "raised"]
            /\ UNCHANGED reconnect_attempts
       ELSE /\ conc' = [cn EXCEPT !.pos[c] = "r_disc"]
            /\ reconnect_attempts' = reconnect_attempts + 1
  /\ UNCHANGED tOpen

\* a task calls call_tool: lines 72-79, and send_request up to its await
ConcCallTool(c) ==
  /\ UNCHANGED <<auditVars, execVars, clientVars, escVars, finVars>>
  /\ UNCHANGED <<tools, spc, sop, sreq, sstat, sres>>
  /\ conc.pos[c] = "idle"
  /\ IF tOpen
       THEN /\ conc' = Written(conc, c, "call")
            /\ UNCHANGED <<connected, reconnect_attempts, tOpen>>
       ELSE ConcRecover(conc, c)

\* the readline of a first tools/call returns: a line (lines 77-81, 80) or
\* nothing (line 75; lines 81-85 and _reconnect)
ConcCallResponse(c, ok, r) ==
  /\ UNCHANGED <<auditVars, execVars, clientVars, escVars, finVars>>
  /\ UNCHANGED <<tools, spc, sop, sreq, sstat, sres>>
  /\ conc.pos[c] = "call"
  /\ IF ok
       THEN /\ r \in Readable(conc, c)
            /\ conc' = [conc EXCEPT !.wire = @ \ {r}, !.got[c] = r.id,
                                    !.pos[c] = "returned"]
            /\ UNCHANGED <<connected, reconnect_attempts, tOpen>>
       ELSE /\ r = [id |-> conc.own[c], proc |-> conc.rd[c]]
            /\ ConcRecover([conc EXCEPT !.wire = @ \ {r}], c)

\* _reconnect, lines 102-107: disconnect() terminates the process the
\* transport holds, if any (transport.py lines 85-88), then the sleep starts
ConcReconnectDisconnect(c) ==
  /\ UNCHANGED <<auditVars, execVars, clientVars, escVars, finVars>>
  /\ UNCHANGED <<tools, spc, sop, sreq, sstat, sres>>
  /\ conc.pos[c] = "r_disc"
  /\ tOpen' = FALSE
  /\ connected' = FALSE
  /\ conc' = [conc EXCEPT
                !.wire = IF tOpen THEN {r \in @ : r.proc # conc.proc} ELSE @,
                !.pos[c] = "r_sleep"]
  /\ UNCHANGED reconnect_attempts

\* the sleep is over: connect() starts a process (transport.py lines 43-49)
\* and sends `initialize` (client.py lines 38-48)
ConcBackoffOver(c) ==
  /\ UNCHANGED <<auditVars, execVars, clientVars, escVars, finVars>>
  /\ UNCHANGED <<tools, spc, sop, sreq, sstat, sres>>
  /\ conc.pos[c] = "r_sleep"
  /\ tOpen' = TRUE
  /\ conc' = Written([conc EXCEPT !.proc = conc.spawned + 1,
                                  !.spawned = @ + 1], c, "c_init")
  /\ UNCHANGED <<connected, reconnect_attempts>>

\* the readline of `initialize` or `tools/list` returns inside the connect()
\* of a reconnection: client.py lines 41-68, then call_tool lines 87-90
ConcConnectResponse(c, ok, r) ==
  /\ UNCHANGED <<auditVars, execVars, clientVars, escVars, finVars>>
  /\ UNCHANGED <<tools, spc, sop, sreq, sstat, sres>>
  /\ conc.pos[c] \in {"c_init", "c_list"}
  /\ IF ok
       THEN /\ r \in Readable(conc, c)
            /\ LET cn == [conc EXCEPT !.wire = @ \ {r}]
               IN IF conc.pos[c] = "c_init"
                    THEN /\ IF tOpen
                              THEN /\ conc' = Written(cn, c, "c_list")
                                   /\ UNCHANGED connected
                              ELSE /\ conc' = [cn EXCEPT !.pos[c] = "raised"]
                                   /\ connected' = FALSE
                         /\ UNCHANGED reconnect_attempts
                    ELSE /\ connected' = TRUE
                         /\ reconnect_attempts' =
                              AttemptsAfterConnect(reconnect_attempts)
                         /\ IF tOpen
                              THEN conc' = Written(cn, c, "retry")
                              ELSE conc' = [cn EXCEPT !.pos[c] = "raised"]
       ELSE /\ r = [id |-> conc.own[c], proc |-> conc.rd[c]]
            /\ connected' = FALSE
            /\ conc' = [conc EXCEPT !.wire = @ \ {r}, !.pos[c] = "raised"]
            /\ UNCHANGED reconnect_attempts
  /\ UNCHANGED tOpen

\* the readline of the tools/call sent again returns: lines 87-90
ConcRetryResponse(c, ok, r) ==
  /\ UNCHANGED <<auditVars, execVars, clientVars, escVars, finVars>>
  /\ UNCHANGED <<tools, spc, sop, sreq, sstat, sres>>
  /\ conc.pos[c] = "retry"
  /\ IF ok
       THEN /\ r \in Readable(conc, c)
            /\ conc' = [conc EXCEPT !.wire = @ \ {r}, !.got[c] = r.id,
                                    !.pos[c] = "returned"]
       ELSE /\ r = [id |-> conc.own[c], proc |-> conc.rd[c]]
            /\ conc' = [conc EXCEPT !.wire = @ \ {r}, !.pos[c] = "raised"]
  /\ UNCHANGED <<connected, reconnect_attempts, tOpen>>

\* a call_tool writes at most four requests and starts at most one process
Wires == [id : 1..(4 * NumCallers), proc : 1..(NumCallers + 1)]

\* C29: at most one request is in flight on the transport at any time, and
\* every call_tool that returns a response returns the response to its own
\* request, also when several gathered tasks call tools of the same server.
C29_OneRequestInFlight ==
  /\ Cardinality(conc.wire) <= 1
  /\ \A c \in Callers :
       conc.pos[c] = "returned" => conc.got[c] = conc.own[c]

\* C30: the transitions of one session are serialized: at most one
\* reconnection (disconnect, back-off, connect) is in progress at any time,
\* and no call_tool writes a tools/call while another caller's reconnection
\* is in progress.
C30_TransitionsSerialized ==
  /\ Cardinality(Reconnecting(conc)) <= 1
  /\ ~conc.sentIn

ConcurrentNext ==
  \/ \E c \in Callers : ConcCallTool(c)
  \/ \E c \in Callers, ok \in BOOLEAN, r \in Wires :
       ConcCallResponse(c, ok, r)
  \/ \E c \in Callers : ConcReconnectDisconnect(c)
  \/ \E c \in Callers : ConcBackoffOver(c)
  \/ \E c \in Callers, ok \in BOOLEAN, r \in Wires :
       ConcConnectResponse(c, ok, r)
  \/ \E c \in Callers, ok \in BOOLEAN, r \in Wires :
       ConcRetryResponse(c, ok, r)


(***************************************************************************)
(* run_session: the finally block (main.py lines 165-182).  While the      *)
(* session runs the executor adds audit events; the finally block awaits   *)
(* the flush of the batcher, modelled by the AuditBatcher actions above,   *)
(* and then the other cleanup steps, each of them one step that returns or *)
(* raises.                                                                 *)
(***************************************************************************)

\* enterprise: config.policy.enterprise_url is set, so that the policy
\*   client, the audit batcher and the policy refresher exist (lines 30-35,
\*   64-70)
\* closable: the LLM adapter has a close method (line 180)
\* ran: the cleanup steps awaited so far, in order
NoFin == [enterprise |-> FALSE, closable |-> FALSE, pc |-> "running",
          ran |-> <<>>]

FinRest == fin = NoFin

FinInit == fin \in {[NoFin EXCEPT !.enterprise = e, !.closable = c] :
                      e, c \in BOOLEAN}

\* lines 166-182: the steps of the finally block, in order
CleanupSteps(f) ==
  (IF f.enterprise
     THEN <<"flush", "refresher_stop", "policy_disconnect">>
     ELSE <<>>)
    \o <<"disconnect_all">>
    \o (IF f.closable THEN <<"llm_close">> ELSE <<>>)
    \o <<"close_session">>

NextCleanup(f) == CleanupSteps(f)[Len(f.ran) + 1]

FlushCalls == SelectSeq(auditLog, LAMBDA c : c.op = "flush")

\* the step just awaited has ended: an exception leaves the finally block
\* and run_session, the last step ends run_session
AfterCleanup(f, step, ok) ==
  [f EXCEPT !.ran = Append(@, step),
            !.pc = IF ~ok THEN "raised"
                   ELSE IF Len(f.ran) + 1 = Len(CleanupSteps(f))
                          THEN "returned"
                   ELSE "finally"]

\* executor.py line 139, during the session: the executor adds an event
FinAddEvent(t) ==
  /\ fin.pc = "running"
  /\ fin.enterprise
  /\ AddEvent(t)

\* the try block is left (lines 119, 157, 163, or an exception)
FinEnter ==
  /\ UNCHANGED <<auditVars, sessVars, execVars, clientVars, escVars,
                 concVars>>
  /\ fin.pc = "running"
  /\ auditLock = 0
  /\ fin' = [fin EXCEPT !.pc = "finally"]

\* lines 167-168: await audit_batcher.flush()
FinFlush(t) ==
  /\ fin.pc = "finally"
  /\ NextCleanup(fin) = "flush"
  /\ FlushCalls = <<>>
  /\ Flush(t)

\* flush() has returned or raised
FinFlushEnds ==
  /\ UNCHANGED <<auditVars, sessVars, execVars, clientVars, escVars,
                 concVars>>
  /\ fin.pc = "finally"
  /\ NextCleanup(fin) = "flush"
  /\ FlushCalls # <<>>
  /\ fin' = AfterCleanup(fin, "flush", FlushCalls[1].result = "returned")

\* lines 171-182: the next cleanup step is awaited and returns or raises;
\* disconnect_all and close_session do not raise
FinStep(ok) ==
  /\ UNCHANGED <<auditVars, sessVars, execVars, clientVars, escVars,
                 concVars>>
  /\ fin.pc = "finally"
  /\ NextCleanup(fin) # "flush"
  /\ ok \/ NextCleanup(fin) \notin {"disconnect_all", "close_session"}
  /\ fin' = AfterCleanup(fin, NextCleanup(fin), ok)

\* C40: when run_session has ended after the final flush of the audit
\* batcher raised, every tool-server session has been disconnected and the
\* policy refresher has been stopped all the same.
FlushFailedAtShutdown ==
  /\ fin.pc \in {"returned", "raised"}
  /\ FlushCalls # <<>>
  /\ FlushCalls[1].result = "raised"

C40_CleanupSurvivesFlushFailure ==
  FlushFailedAtShutdown =>
    /\ "disconnect_all" \in Range(fin.ran)
    /\ fin.enterprise => "refresher_stop" \in Range(fin.ran)

ShutdownNext ==
  \/ \E t \in AuditTasks : FinAddEvent(t)
  \/ FinEnter
  \/ \E t \in AuditTasks : FinFlush(t)
  \/ FinFlushEnds
  \/ \E ok \in BOOLEAN : FinStep(ok)
  \/ PushOk
  \/ PushFail
  \/ Tick

AuditSpecInit ==
  AuditInit /\ SessionInit /\ ExecRest /\ ClientInit /\ EscRest /\ ConcRest
  /\ FinRest

AuditSpec == AuditSpecInit /\ [][AuditNext]_vars

AuditAnySpecInit ==
  AuditAnyInit /\ SessionInit /\ ExecRest /\ ClientInit /\ EscRest /\ ConcRest
  /\ FinRest

AuditAnySpec == AuditAnySpecInit /\ [][AuditNext]_vars

SessionSpecInit ==
  AuditRest /\ SessionInit /\ ExecRest /\ ClientInit /\ EscRest /\ ConcRest
  /\ FinRest

SessionSpec == SessionSpecInit /\ [][SessionNext]_vars

SpecInit ==
  AuditRest /\ SessionInit /\ ExecInit /\ ClientInit /\ EscRest /\ ConcRest
  /\ FinRest

Spec == SpecInit /\ [][Next]_vars

ClientSpecInit ==
  AuditRest /\ SessionInit /\ ExecRest /\ ClientInit /\ EscRest /\ ConcRest
  /\ FinRest

ClientSpec == ClientSpecInit /\ [][ClientNext]_vars

EscalationSpecInit ==
  AuditRest /\ SessionInit /\ ExecRest /\ ClientInit /\ EscInit /\ ConcRest
  /\ FinRest

EscalationSpec == EscalationSpecInit /\ [][EscalationNext]_vars

ConcurrentSpecInit ==
  AuditRest /\ ConcInit /\ ExecRest /\ ClientInit /\ EscRest
  /\ FinRest

ConcurrentSpec == ConcurrentSpecInit /\ [][ConcurrentNext]_vars

ShutdownSpecInit ==
  AuditInit /\ SessionInit /\ ExecRest /\ ClientInit /\ EscRest /\ ConcRest
  /\ FinInit

ShutdownSpec == ShutdownSpecInit /\ [][ShutdownNext]_vars

=============================================================================
